---- MODULE Spec2Model ----
(***************************************************************************)
(* A model of the capturing TCP proxy engine of mcp-nettools:              *)
(*   - RingBuffer (the byte-budgeted capture buffer),                      *)
(*   - ProxyManager (the registry: StartProxy, StopProxy, StopAll),        *)
(*   - ProxyInstance (accept loop, connection handler, the two relays).    *)
(* The buffer operations are operators over a buffer record, so that the   *)
(* stand-alone buffer specification (SpecBuf) and the buffers owned by     *)
(* proxy instances (Spec) run the same code.                               *)
(***************************************************************************)
EXTENDS Integers, Sequences, FiniteSets, TLC

(***************************************************************************)
(* Bounds of the model.                                                    *)
(***************************************************************************)
\* Slots allocated by NewRingBuffer.  The source allocates 1000; the model
\* scales the number down so that growth and wrap-around are reached.
InitialCapacity == 2
\* Largest raw-data length of a packet handed to Add in SpecBuf.
MaxRawLen == 2
\* Number of Add calls of one run of SpecBuf.
MaxAdds == 5
\* Number of Add calls of one run of SpecStats, and the budget of its buffer.
StatAdds == 3
StatBudget == 2

\* Default byte budget of NewRingBuffer (10 MiB).
DefaultMaxSize == 10485760

\* Budgets (the maxSize argument of NewRingBuffer) tried by SpecBuf; values
\* <= 0 select the default.
BufBudgets == {-1, 0, 1, 2, 5}
BufThreads == {"t1", "t2"}

\* Number of ProxyInstance objects created in one run of Spec.
MaxInst == 2
\* Number of client connections accepted in one run of Spec.
MaxConn == 1
\* Data reads stop once an instance has captured this many bytes.
MaxBytes == 1
\* Number of StartProxy calls of one run of SpecLock.
LockStarts == 1
\* Client connections accepted, and bytes captured before the data reads
\* stop, in one run of SpecXfer.
XferConn == 2
XferBytes == 3

\* Listen ports, API callers (goroutines calling the ProxyManager), the
\* captureLimit arguments and the lengths of the chunks a Read returns.
Ports == {1, 2}
Callers == {"a", "b"}
CaptureLimits == {1}
ChunkLens == {1}
InstIds == 1..MaxInst
ConnIds == 1..XferConn
Dirs == {"Client->Server", "Server->Client"}

VARIABLES
  \* ---- stand-alone RingBuffer (SpecBuf) ----
  rb,        \* the RingBuffer: data, maxSize, currentSize, head, tail, count
  rbMu,      \* holder of rb.mu, or "free"
  bpc,       \* per thread: the RingBuffer method it is inside ("idle" if none)
  barg,      \* per thread: the packet argument of its Add
  snap,      \* the slice returned by the last GetAll
  stat,      \* the result of the last GetStats or GetUsagePercent
  hist,      \* history: the packets handed to Add since the last Clear
  nAdds,     \* number of Add calls so far
  \* ---- ProxyManager and its instances (Spec) ----
  proxies,   \* pm.proxies: listen port -> instance id (0: no entry)
  pmMu,      \* holder of pm.mu (write lock), or "free"
  call,      \* per caller: position, arguments, locals and result
  nInst,     \* number of ProxyInstance objects created
  inst,      \* the ProxyInstance objects, with their accept loops
  osPort,    \* the host's TCP ports: "free", "proc" (bound by a listener
             \* of this process) or "ext" (bound by another process)
  nConn,     \* number of connections accepted
  conn,      \* per accepted connection: handler, relays, connDone, sockets
  panicked,  \* the process died of a panic (close of a closed channel)
  load,      \* the environment: how many clients connect (conns) and after
             \* how many captured bytes the peers stop sending (bytes)
  \* ---- the analysis of one chunk by captureData (SpecSniff) ----
  chunk,     \* data: the bytes of the chunk
  out        \* the protocol label and the ASCII strings computed for it

bufVars == <<rb, rbMu, bpc, barg, snap, stat, hist, nAdds>>
proxyVars == <<proxies, pmMu, call, nInst, inst, osPort, nConn, conn, panicked>>

sniffVars == <<chunk, out>>

envVars == <<load>>

vars == <<bufVars, proxyVars, sniffVars, envVars>>

(***************************************************************************)
(* CapturedPacket: id stands for the pointer identity, dir for Direction,  *)
(* bytes for Bytes and raw for len(RawData).  conn and seq record which    *)
(* connection's relay built the packet and from which of its reads (0 for  *)
(* a packet no relay built); the program does not store them.  NoPkt is    *)
(* the nil pointer of an empty slot.                                       *)
(***************************************************************************)
NoPkt == [id |-> 0, dir |-> "", bytes |-> 0, raw |-> 0, conn |-> 0, seq |-> 0]

Min(a, b) == IF a < b THEN a ELSE b

\* make([]*CapturedPacket, n)
NilSlots(n) == [i \in 1..n |-> NoPkt]

\* Go's copy(dst, src): overwrites the first min(len) elements of dst.
CopyInto(dst, src) ==
  [i \in 1..Len(dst) |-> IF i <= Len(src) THEN src[i] ELSE dst[i]]

\* Go's s[lo:hi] on a slice held as a 1-based sequence.
Slice(s, lo, hi) == SubSeq(s, lo + 1, hi)

NewRingBuffer(maxSize) ==
  [data        |-> NilSlots(InitialCapacity),
   maxSize     |-> IF maxSize <= 0 THEN DefaultMaxSize ELSE maxSize,
   currentSize |-> 0,
   head        |-> 0,
   tail        |-> 0,
   count       |-> 0]

\* grow with a plausible slip: the slots are copied as they lie, not in order.
growUnordered(b) ==
  [b EXCEPT !.data = CopyInto(NilSlots(Len(b.data) * 2), b.data),
            !.tail = 0,
            !.head = b.count]

\* RingBuffer.grow: doubles the capacity, copying the packets in order.
grow(b) ==
  LET newData == NilSlots(Len(b.data) * 2)
      copied  ==
        IF b.tail < b.head
          THEN CopyInto(newData, Slice(b.data, b.tail, b.head))
          ELSE IF b.count > 0
            THEN LET first == Slice(b.data, b.tail, Len(b.data))
                     n     == Min(Len(newData), Len(first))
                     rest  == CopyInto(Slice(newData, n, Len(newData)),
                                       Slice(b.data, 0, b.head))
                 IN  Slice(CopyInto(newData, first), 0, n) \o rest
            ELSE newData
  IN  [b EXCEPT !.data = copied, !.tail = 0, !.head = b.count]

\* The eviction loop with a plausible slip: nothing is evicted.
EvictNone(b, packetSize) == b

\* The eviction loop with a plausible slip: when the incoming packet does
\* not fit, every packet is dropped.
EvictAll(b, packetSize) ==
  IF b.currentSize + packetSize > b.maxSize /\ b.count > 0
    THEN [b EXCEPT !.currentSize = 0,
                   !.tail        = (b.tail + b.count) % Len(b.data),
                   !.count       = 0]
    ELSE b

\* The eviction loop of Add: drop oldest packets while the incoming one
\* does not fit and a packet remains.
RECURSIVE Evict(_, _)
Evict(b, packetSize) ==
  IF b.currentSize + packetSize > b.maxSize /\ b.count > 0
    THEN Evict([b EXCEPT !.currentSize = @ - b.data[b.tail + 1].raw,
                         !.tail        = (b.tail + 1) % Len(b.data),
                         !.count       = @ - 1],
               packetSize)
    ELSE b

\* The packet as Add stores it: RawData truncated to maxSize if longer.
Truncated(b, packet) ==
  IF packet.raw > b.maxSize THEN [packet EXCEPT !.raw = b.maxSize] ELSE packet

\* Add with a plausible slip: the packet is stored in front of the oldest
\* one instead of behind the newest.
RbAddAtTail(b, packet) ==
  LET pkt        == Truncated(b, packet)
      packetSize == pkt.raw
      evicted    == Evict(b, packetSize)
      g          == IF evicted.count = Len(evicted.data) THEN grow(evicted)
                                                        ELSE evicted
      newTail    == (g.tail + Len(g.data) - 1) % Len(g.data)
  IN  [g EXCEPT !.data[newTail + 1] = pkt,
                !.tail              = newTail,
                !.count             = @ + 1,
                !.currentSize       = @ + packetSize]

\* RingBuffer.Add (the body run under rb.mu).
RbAdd(b, packet) ==
  LET pkt        == Truncated(b, packet)
      packetSize == pkt.raw
      evicted    == Evict(b, packetSize)
      g          == IF evicted.count = Len(evicted.data) THEN grow(evicted)
                                                        ELSE evicted
  IN  [g EXCEPT !.data[g.head + 1] = pkt,
                !.head             = (g.head + 1) % Len(g.data),
                !.count            = @ + 1,
                !.currentSize      = @ + packetSize]

\* GetAll with a plausible slip: the first count slots are copied as they
\* lie, whatever the position of the oldest packet.
RbGetAllFromZero(b) ==
  IF b.count = 0 THEN <<>> ELSE Slice(b.data, 0, b.count)

\* RingBuffer.GetAll (the body run under rb.mu); nil is the empty sequence.
RbGetAll(b) ==
  IF b.count = 0 THEN <<>>
  ELSE LET result == NilSlots(b.count)
       IN  IF b.tail < b.head
             THEN CopyInto(result, Slice(b.data, b.tail, b.head))
             ELSE LET first == Slice(b.data, b.tail, Len(b.data))
                      n     == Min(Len(result), Len(first))
                      rest  == CopyInto(Slice(result, n, Len(result)),
                                        Slice(b.data, 0, b.head))
                  IN  Slice(CopyInto(result, first), 0, n) \o rest

\* Clear with a plausible slip: currentSize is not reset.
RbClearKeepsSize(b) ==
  [b EXCEPT !.head = 0, !.tail = 0, !.count = 0,
            !.data = NilSlots(Len(b.data))]

\* RingBuffer.Clear (the body run under rb.mu).
RbClear(b) ==
  [b EXCEPT !.head = 0, !.tail = 0, !.count = 0, !.currentSize = 0,
            !.data = NilSlots(Len(b.data))]

\* A float64 quotient, held exactly as the pair <<numerator, denominator>>.
Quot(n, d) == <<n, d>>

\* RingBuffer.getUsagePercentLocked: the caller holds rb.mu.
getUsagePercentLocked(b) ==
  IF b.maxSize = 0 THEN Quot(0, 1) ELSE Quot(b.currentSize * 100, b.maxSize)

\* RingBuffer.GetStats (the body run under rb.mu): packets, bytes, usage.
RbGetStats(b) ==
  [packets |-> b.count, bytes |-> b.currentSize,
   usage |-> getUsagePercentLocked(b)]

\* The result before any GetStats or GetUsagePercent has returned.
NoStat == [packets |-> 0, bytes |-> 0, usage |-> Quot(0, 1)]

(***************************************************************************)
(* detectProtocol and extractAsciiStrings.  A chunk is a sequence of bytes *)
(* (0..255); a Go string is the sequence of its bytes.                     *)
(***************************************************************************)
\* strings.HasPrefix(s, prefix)
HasPrefix(s, prefix) ==
  Len(s) >= Len(prefix) /\ SubSeq(s, 1, Len(prefix)) = prefix

\* strings.Contains(s, substr)
Contains(s, substr) ==
  \E i \in 0..(Len(s) - Len(substr)) : SubSeq(s, i + 1, i + Len(substr)) = substr

\* The string literals of detectProtocol, as bytes.
StrGET == <<71, 69, 84, 32>>
StrPOST == <<80, 79, 83, 84, 32>>
StrPUT == <<80, 85, 84, 32>>
StrDELETE == <<68, 69, 76, 69, 84, 69, 32>>
StrHEAD == <<72, 69, 65, 68, 32>>
StrOPTIONS == <<79, 80, 84, 73, 79, 78, 83, 32>>
StrHTTP1 == <<72, 84, 84, 80, 47, 49, 46>>
StrPRI == <<80, 82, 73, 32, 42, 32, 72, 84, 84, 80, 47, 50, 46, 48>>
StrGrpc == <<47, 103, 114, 112, 99, 46>>
StrProto == <<46, 112, 114, 111, 116, 111, 46>>

\* detectProtocol with a plausible slip: the TLS test comes before the gRPC
\* test.
detectProtocolTlsFirst(data) ==
  IF \/ HasPrefix(data, StrGET) \/ HasPrefix(data, StrPOST)
     \/ HasPrefix(data, StrPUT) \/ HasPrefix(data, StrDELETE)
     \/ HasPrefix(data, StrHEAD) \/ HasPrefix(data, StrOPTIONS)
     \/ HasPrefix(data, StrHTTP1)
    THEN "HTTP/1.x"
  ELSE IF HasPrefix(data, StrPRI)
    THEN "HTTP/2"
  ELSE IF Len(data) > 5 /\ data[1] = 22 /\ data[2] = 3
    THEN "TLS"
  ELSE IF Contains(data, StrGrpc) \/ Contains(data, StrProto)
    THEN "gRPC"
  ELSE "Unknown"

\* detectProtocol
detectProtocol(data) ==
  IF \/ HasPrefix(data, StrGET) \/ HasPrefix(data, StrPOST)
     \/ HasPrefix(data, StrPUT) \/ HasPrefix(data, StrDELETE)
     \/ HasPrefix(data, StrHEAD) \/ HasPrefix(data, StrOPTIONS)
     \/ HasPrefix(data, StrHTTP1)
    THEN "HTTP/1.x"
  ELSE IF HasPrefix(data, StrPRI)
    THEN "HTTP/2"
  ELSE IF Contains(data, StrGrpc) \/ Contains(data, StrProto)
    THEN "gRPC"
  ELSE IF Len(data) > 5 /\ data[1] = 22 /\ data[2] = 3
    THEN "TLS"
  ELSE "Unknown"

\* The loop of extractAsciiStrings from byte i on: strs is `strings`, cur is
\* `current`.
RECURSIVE ScanBytes(_, _, _, _)
ScanBytes(data, i, strs, cur) ==
  IF i > Len(data) THEN [strings |-> strs, current |-> cur]
  ELSE IF data[i] >= 32 /\ data[i] <= 126
    THEN ScanBytes(data, i + 1, strs, Append(cur, data[i]))
    ELSE ScanBytes(data, i + 1,
                   IF Len(cur) > 4 THEN Append(strs, cur) ELSE strs, <<>>)

\* if len(strings) > 10 { strings = strings[:10] }
FirstTen(strs) == IF Len(strs) > 10 THEN Slice(strs, 0, 10) ELSE strs

\* extractAsciiStrings with a plausible slip: the run that ends the chunk is
\* forgotten.
extractAsciiStringsNoLast(data) ==
  FirstTen(ScanBytes(data, 1, <<>>, <<>>).strings)

\* extractAsciiStrings
extractAsciiStrings(data) ==
  LET scan == ScanBytes(data, 1, <<>>, <<>>)
      strs == IF Len(scan.current) > 4
                THEN Append(scan.strings, scan.current) ELSE scan.strings
  IN  FirstTen(strs)

\* No chunk is under analysis.
NoOut == [done |-> FALSE, protocol |-> "", asciiStrings |-> <<>>]

SniffIdle == chunk = <<>> /\ out = NoOut

(***************************************************************************)
(* ProxyManager, ProxyInstance: state.                                     *)
(***************************************************************************)
\* An instance slot before StartProxy has created the object.
NoInst ==
  [ListenPort    |-> 0,
   Listener      |-> "nil",      \* "nil", "open" or "closed"
   Done          |-> FALSE,      \* TRUE once the Done channel is closed
   BytesCaptured |-> 0,          \* Stats.BytesCaptured
   Connections   |-> 0,          \* Stats.Connections
   connections   |-> 0,          \* the atomic active-connection counter
   Buffer        |-> NewRingBuffer(0),
   nCap          |-> 0,          \* packets created by captureData
   runpc         |-> "none",     \* position of the goroutine run()
   acc           |-> 0,          \* run(): clientConn of the last Accept
   stopRet       |-> -1]         \* byte count StopProxy returned (-1: none)

\* The ProxyInstance literal of StartProxy.
NewInstance(listenPort, captureLimit) ==
  [NoInst EXCEPT !.ListenPort = listenPort,
                 !.Listener   = "open",
                 !.Buffer     = NewRingBuffer(captureLimit)]

\* A connection slot before Accept has returned the connection.
NoConn ==
  [inst      |-> 0,                          \* the instance that accepted it
   hpc       |-> "none",                     \* position of handleConnection
   rpc       |-> [d \in Dirs |-> "none"],    \* positions of copyWithCapture
   rn        |-> [d \in Dirs |-> 0],         \* n of the chunk in flight
   seq       |-> [d \in Dirs |-> 0],         \* history: chunks read
   cap       |-> [d \in Dirs |-> 0],         \* history: bytes counted
   fwd       |-> [d \in Dirs |-> 0],         \* history: bytes written
   connDone  |-> FALSE,                      \* TRUE once connDone is closed
   cliClosed |-> FALSE,                      \* clientConn.Close() was called
   srvClosed |-> FALSE]                      \* serverConn.Close() was called

\* A caller outside every ProxyManager method.
IdleCall ==
  [pc    |-> "idle",
   op    |-> "none",  \* the method last called
   port  |-> 0,       \* listenPort argument
   limit |-> 0,       \* captureLimit argument
   clear |-> FALSE,   \* clear_buffer argument of get_proxy_output
   proxy |-> 0,       \* local proxy of StopProxy / StopAll
   todo  |-> {},      \* StopAll: entries the range loop has yet to visit
   bytes |-> 0,       \* local bytesCaptured of StopProxy
   captures   |-> <<>>,  \* get_proxy_output: local captures
   totalBytes |-> 0,     \* get_proxy_output: local totalBytes
   ret   |-> "none",  \* result of the last call
   retBytes |-> 0]    \* byte count returned by the last StopProxy

\* The load of Spec, SpecReg and SpecLock.
LightLoad == [conns |-> MaxConn, bytes |-> MaxBytes]

\* NewProxyManager, on a host where other processes hold some of the ports
\* (for the whole run).
ProxyInit ==
  /\ proxies = [p \in Ports |-> 0]
  /\ pmMu = "free"
  /\ call = [c \in Callers |-> IdleCall]
  /\ nInst = 0
  /\ inst = [i \in InstIds |-> NoInst]
  /\ osPort \in [Ports -> {"free", "ext"}]
  /\ nConn = 0
  /\ conn = [k \in ConnIds |-> NoConn]
  /\ panicked = FALSE
  /\ load = LightLoad

\* A step of the proxy engine: the process has not died of a panic.  The
\* stand-alone buffer is no part of the engine.
EngineStep == ~panicked /\ UNCHANGED <<bufVars, sniffVars, envVars>>

\* ProxyManager.GetProxy: the entry of a port, and whether there is one.
GetProxy(listenPort) ==
  [proxy |-> proxies[listenPort], exists |-> proxies[listenPort] # 0]

\* ProxyManager.GetAllProxies: the registered instances (in no order).
GetAllProxies == {proxies[p] : p \in {q \in Ports : proxies[q] # 0}}

\* close(ch) on an instance's Done channel: a second close panics.
CloseDone(i) ==
  IF inst[i].Done
    THEN /\ panicked' = TRUE
         /\ UNCHANGED inst
    ELSE /\ inst' = [inst EXCEPT ![i].Done = TRUE]
         /\ UNCHANGED panicked

(***************************************************************************)
(* The locks of an instance: Stats.mu (RWMutex) and Buffer.mu (Mutex).     *)
(* Who holds a lock follows from the positions of the tasks: a task is at  *)
(* a position ending in _l between the Lock (RLock) it called and its      *)
(* Unlock (RUnlock).                                                       *)
(***************************************************************************)
\* Instance i's Stats.mu is write-locked: by a relay in captureData or by
\* the accept loop.
StatsWriteHeld(i) ==
  \/ inst[i].runpc = "stat_l"
  \/ \E k \in ConnIds, d \in Dirs :
       conn[k].inst = i /\ conn[k].rpc[d] = "stats_l"

\* The callers that hold instance i's Stats.mu read-locked.
StatsReaders(i) ==
  {c \in Callers : /\ call[c].proxy = i
                   /\ call[c].pc \in {"sp_stats_l", "ls_stats_l", "go_stats_l"}}

\* The callers that hold instance i's Buffer.mu.
BufCallers(i) ==
  {c \in Callers : /\ call[c].proxy = i
                   /\ call[c].pc \in {"ls_buf_l", "go_all_l", "go_gs_l",
                                       "go_clr_l"}}

\* Instance i's Buffer.mu is held: by a relay in Add or by a caller.
BufHeld(i) ==
  \/ BufCallers(i) # {}
  \/ \E k \in ConnIds, d \in Dirs :
       conn[k].inst = i /\ conn[k].rpc[d] = "add_l"

\* Stats.mu.Lock(), Stats.mu.RLock() and Buffer.mu.Lock() can return.
StatsCanLock(i) == ~StatsWriteHeld(i) /\ StatsReaders(i) = {}
StatsCanRLock(i) == ~StatsWriteHeld(i)
BufCanLock(i) == ~BufHeld(i)

\* pm.mu.Lock() with a plausible slip: the lock is not waited for.
NoWait(c) == TRUE

\* pm.mu.Lock() can return for caller c: nobody holds the lock.
CanLock(c) == pmMu = "free"

\* Entry of a ProxyManager method by caller c: pm.mu.Lock().
Enter(c, op, pc, port, limit) ==
  /\ EngineStep
  /\ call[c].pc = "idle"
  /\ CanLock(c)
  /\ pmMu' = c
  /\ call' = [call EXCEPT ![c] = [IdleCall EXCEPT !.pc = pc, !.op = op,
                                                  !.port = port,
                                                  !.limit = limit]]

\* Return from a ProxyManager method: the deferred pm.mu.Unlock().  The
\* caller keeps the method, its port argument and the result.
Return(c, ret, retBytes) ==
  /\ pmMu' = "free"
  /\ call' = [call EXCEPT ![c] = [IdleCall EXCEPT !.op = call[c].op,
                                                  !.port = call[c].port,
                                                  !.ret = ret,
                                                  !.retBytes = retBytes]]

(***************************************************************************)
(* ProxyManager.StartProxy                                                 *)
(***************************************************************************)
StartLock(c, p, limit) ==
  /\ nInst < MaxInst
  /\ Enter(c, "Start", "st_check", p, limit)
  /\ UNCHANGED <<proxies, nInst, inst, osPort, nConn, conn, panicked>>

\* The existence check with a plausible slip: the entry is found, and the
\* call goes on to bind instead of returning.
StartExistsGoesOn(c) ==
  /\ EngineStep
  /\ call[c].pc = "st_check"
  /\ proxies[call[c].port] # 0
  /\ call' = [call EXCEPT ![c].pc = "st_listen"]
  /\ UNCHANGED <<proxies, pmMu, nInst, inst, osPort, nConn, conn, panicked>>

\* if _, exists := pm.proxies[listenPort]; exists { return error }
StartExists(c) ==
  /\ EngineStep
  /\ call[c].pc = "st_check"
  /\ proxies[call[c].port] # 0
  /\ Return(c, "AlreadyRunning", 0)
  /\ UNCHANGED <<proxies, nInst, inst, osPort, nConn, conn, panicked>>

StartCheckOk(c) ==
  /\ EngineStep
  /\ call[c].pc = "st_check"
  /\ proxies[call[c].port] = 0
  /\ call' = [call EXCEPT ![c].pc = "st_listen"]
  /\ UNCHANGED <<proxies, pmMu, nInst, inst, osPort, nConn, conn, panicked>>

\* net.Listen fails: the port is bound already.
StartBindFail(c) ==
  /\ EngineStep
  /\ call[c].pc = "st_listen"
  /\ osPort[call[c].port] # "free"
  /\ Return(c, "BindError", 0)
  /\ UNCHANGED <<proxies, nInst, inst, osPort, nConn, conn, panicked>>

\* net.Listen succeeds.
StartBindOk(c) ==
  /\ EngineStep
  /\ call[c].pc = "st_listen"
  /\ osPort[call[c].port] = "free"
  /\ osPort' = [osPort EXCEPT ![call[c].port] = "proc"]
  /\ call' = [call EXCEPT ![c].pc = "st_create"]
  /\ UNCHANGED <<proxies, pmMu, nInst, inst, nConn, conn, panicked>>

\* The creation with a plausible slip: `go proxy.run()` is left out.
StartCreateNoRun(c) ==
  /\ EngineStep
  /\ call[c].pc = "st_create"
  /\ nInst < MaxInst
  /\ nInst' = nInst + 1
  /\ inst' = [inst EXCEPT ![nInst + 1] =
                NewInstance(call[c].port, call[c].limit)]
  /\ proxies' = [proxies EXCEPT ![call[c].port] = nInst + 1]
  /\ Return(c, "ok", 0)
  /\ UNCHANGED <<osPort, nConn, conn, panicked>>

\* proxy := &ProxyInstance{...}; go proxy.run(); pm.proxies[port] = proxy;
\* return nil
StartCreate(c) ==
  /\ EngineStep
  /\ call[c].pc = "st_create"
  /\ nInst < MaxInst
  /\ nInst' = nInst + 1
  /\ inst' = [inst EXCEPT ![nInst + 1] =
                [NewInstance(call[c].port, call[c].limit)
                   EXCEPT !.runpc = "sel"]]
  /\ proxies' = [proxies EXCEPT ![call[c].port] = nInst + 1]
  /\ Return(c, "ok", 0)
  /\ UNCHANGED <<osPort, nConn, conn, panicked>>

(***************************************************************************)
(* ProxyManager.StopProxy                                                  *)
(***************************************************************************)
StopLock(c, p) ==
  /\ Enter(c, "Stop", "sp_lookup", p, 0)
  /\ UNCHANGED <<proxies, nInst, inst, osPort, nConn, conn, panicked>>

\* The lookup with a plausible slip: a missing entry is reported as a
\* success (return 0, nil).
StopNotFoundNil(c) ==
  /\ EngineStep
  /\ call[c].pc = "sp_lookup"
  /\ proxies[call[c].port] = 0
  /\ Return(c, "ok", 0)
  /\ UNCHANGED <<proxies, nInst, inst, osPort, nConn, conn, panicked>>

\* proxy, exists := pm.proxies[listenPort]; if !exists { return 0, error }
StopNotFound(c) ==
  /\ EngineStep
  /\ call[c].pc = "sp_lookup"
  /\ proxies[call[c].port] = 0
  /\ Return(c, "NotFound", 0)
  /\ UNCHANGED <<proxies, nInst, inst, osPort, nConn, conn, panicked>>

StopFound(c) ==
  /\ EngineStep
  /\ call[c].pc = "sp_lookup"
  /\ proxies[call[c].port] # 0
  /\ call' = [call EXCEPT ![c].pc = "sp_done",
                          ![c].proxy = proxies[call[c].port]]
  /\ UNCHANGED <<proxies, pmMu, nInst, inst, osPort, nConn, conn, panicked>>

\* close(proxy.Done)
StopCloseDone(c) ==
  /\ EngineStep
  /\ call[c].pc = "sp_done"
  /\ CloseDone(call[c].proxy)
  /\ call' = [call EXCEPT ![c].pc = "sp_listener"]
  /\ UNCHANGED <<proxies, pmMu, nInst, osPort, nConn, conn>>

\* Listener.Close() with a plausible slip: the listener is left open.
CloseListenerSkipped(i) == UNCHANGED <<inst, osPort>>

\* proxy.Listener.Close(): the listening socket is closed, the port freed.
CloseListener(i) ==
  /\ inst' = [inst EXCEPT ![i].Listener = "closed"]
  /\ osPort' = [osPort EXCEPT ![inst[i].ListenPort] =
                  IF inst[i].Listener = "open" THEN "free" ELSE @]

StopCloseListener(c) ==
  /\ EngineStep
  /\ call[c].pc = "sp_listener"
  /\ CloseListener(call[c].proxy)
  /\ call' = [call EXCEPT ![c].pc = "sp_stats"]
  /\ UNCHANGED <<proxies, pmMu, nInst, nConn, conn, panicked>>

\* proxy.Stats.mu.RLock()
StopStatsRLock(c) ==
  /\ EngineStep
  /\ call[c].pc = "sp_stats"
  /\ StatsCanRLock(call[c].proxy)
  /\ call' = [call EXCEPT ![c].pc = "sp_stats_l"]
  /\ UNCHANGED <<proxies, pmMu, nInst, inst, osPort, nConn, conn, panicked>>

\* bytesCaptured := proxy.Stats.BytesCaptured; proxy.Stats.mu.RUnlock()
StopReadStats(c) ==
  /\ EngineStep
  /\ call[c].pc = "sp_stats_l"
  /\ call' = [call EXCEPT ![c].pc = "sp_delete",
                          ![c].bytes = inst[call[c].proxy].BytesCaptured]
  /\ UNCHANGED <<proxies, pmMu, nInst, inst, osPort, nConn, conn, panicked>>

\* The end of StopProxy with a plausible slip: the entry is not deleted.
StopDeleteKeeps(c) ==
  /\ EngineStep
  /\ call[c].pc = "sp_delete"
  /\ inst' = [inst EXCEPT ![call[c].proxy].stopRet = call[c].bytes]
  /\ Return(c, "ok", call[c].bytes)
  /\ UNCHANGED <<proxies, nInst, osPort, nConn, conn, panicked>>

\* delete(pm.proxies, listenPort); return bytesCaptured, nil
StopDelete(c) ==
  /\ EngineStep
  /\ call[c].pc = "sp_delete"
  /\ proxies' = [proxies EXCEPT ![call[c].port] = 0]
  /\ inst' = [inst EXCEPT ![call[c].proxy].stopRet = call[c].bytes]
  /\ Return(c, "ok", call[c].bytes)
  /\ UNCHANGED <<nInst, osPort, nConn, conn, panicked>>

(***************************************************************************)
(* ProxyManager.StopAll                                                    *)
(***************************************************************************)
\* pm.mu.Lock(); for port, proxy := range pm.proxies
StopAllLock(c) ==
  /\ Enter(c, "StopAll", "sa_loop", 0, 0)
  /\ UNCHANGED <<proxies, nInst, inst, osPort, nConn, conn, panicked>>

\* The range loop yields the next entry, in no particular order; the first
\* step of the loop also fixes the entries to visit.
StopAllNext(c) ==
  /\ EngineStep
  /\ call[c].pc \in {"sa_loop", "sa_more"}
  /\ LET todo == IF call[c].pc = "sa_loop"
                   THEN {p \in Ports : proxies[p] # 0}
                   ELSE call[c].todo
     IN  /\ todo # {}
         /\ \E p \in todo :
              call' = [call EXCEPT ![c].pc = "sa_done",
                                   ![c].proxy = proxies[p],
                                   ![c].todo = todo \ {p}]
  /\ UNCHANGED <<proxies, pmMu, nInst, inst, osPort, nConn, conn, panicked>>

\* close(proxy.Done)
StopAllCloseDone(c) ==
  /\ EngineStep
  /\ call[c].pc = "sa_done"
  /\ CloseDone(call[c].proxy)
  /\ call' = [call EXCEPT ![c].pc = "sa_listener"]
  /\ UNCHANGED <<proxies, pmMu, nInst, osPort, nConn, conn>>

\* proxy.Listener.Close()
StopAllCloseListener(c) ==
  /\ EngineStep
  /\ call[c].pc = "sa_listener"
  /\ CloseListener(call[c].proxy)
  /\ call' = [call EXCEPT ![c].pc = "sa_more"]
  /\ UNCHANGED <<proxies, pmMu, nInst, nConn, conn, panicked>>

\* The end of StopAll with a plausible slip: the loop is left after any
\* number of entries.
StopAllClearEarly(c) ==
  /\ EngineStep
  /\ call[c].pc \in {"sa_loop", "sa_more"}
  /\ proxies' = [p \in Ports |-> 0]
  /\ Return(c, "ok", 0)
  /\ UNCHANGED <<nInst, inst, osPort, nConn, conn, panicked>>

\* The loop is over: pm.proxies = make(map[int]*ProxyInstance); return
StopAllClear(c) ==
  /\ EngineStep
  /\ call[c].pc \in {"sa_loop", "sa_more"}
  /\ {} = IF call[c].pc = "sa_loop" THEN {p \in Ports : proxies[p] # 0}
                                   ELSE call[c].todo
  /\ proxies' = [p \in Ports |-> 0]
  /\ Return(c, "ok", 0)
  /\ UNCHANGED <<nInst, inst, osPort, nConn, conn, panicked>>

(***************************************************************************)
(* The tool handlers that read: ListProxiesHandler.Execute (list_proxies)  *)
(* and GetProxyOutputHandler.Execute (get_proxy_output).  They hold no     *)
(* lock of their own: GetProxy and GetAllProxies take and release          *)
(* pm.mu.RLock, then each instance's locks are taken one after the other.  *)
(***************************************************************************)
\* pm.mu.RLock() can return for caller c: no writer holds pm.mu.
CanRLock(c) == pmMu = "free"

\* Caller c enters a reading handler.
ReaderCall(c, op, pc, port, clear) ==
  /\ EngineStep
  /\ call[c].pc = "idle"
  /\ call' = [call EXCEPT ![c] = [IdleCall EXCEPT !.pc = pc, !.op = op,
                                                  !.port = port,
                                                  !.clear = clear]]
  /\ UNCHANGED <<proxies, pmMu, nInst, inst, osPort, nConn, conn, panicked>>

\* Caller c moves to position pc.
ReaderGoto(c, pc) ==
  /\ call' = [call EXCEPT ![c].pc = pc]
  /\ UNCHANGED <<proxies, pmMu, nInst, inst, osPort, nConn, conn, panicked>>

\* Return from a reading handler, with its result.
ReaderReturn(c, ret) ==
  /\ call' = [call EXCEPT ![c] = [IdleCall EXCEPT !.ret = ret]]
  /\ UNCHANGED <<proxies, pmMu, nInst, inst, osPort, nConn, conn, panicked>>

\* The for loop over proxies yields the next instance.
ReaderNext(c, from, to) ==
  /\ EngineStep
  /\ call[c].pc = from
  /\ \E i \in call[c].todo :
       call' = [call EXCEPT ![c].pc = to, ![c].proxy = i,
                            ![c].todo = call[c].todo \ {i}]
  /\ UNCHANGED <<proxies, pmMu, nInst, inst, osPort, nConn, conn, panicked>>

\* The helper with a plausible slip: Buffer.GetStats computes the usage
\* through the public GetUsagePercent, which locks rb.mu itself.
InstUsageHelperRelocks(c) == BufCanLock(call[c].proxy)

\* Buffer.GetStats computes the usage through getUsagePercentLocked, which
\* takes no lock and relies on the caller holding rb.mu.
InstUsageHelperRuns(c) == c \in BufCallers(call[c].proxy)

ListCall(c) == ReaderCall(c, "List", "ls_rlock", 0, FALSE)

\* proxies := h.manager.GetAllProxies()
ListGetAll(c) ==
  /\ EngineStep
  /\ call[c].pc = "ls_rlock"
  /\ CanRLock(c)
  /\ call' = [call EXCEPT ![c].pc = "ls_loop", ![c].todo = GetAllProxies]
  /\ UNCHANGED <<proxies, pmMu, nInst, inst, osPort, nConn, conn, panicked>>

ListNext(c) == ReaderNext(c, "ls_loop", "ls_stats")

\* proxy.Stats.mu.RLock()
ListStatsRLock(c) ==
  /\ EngineStep
  /\ call[c].pc = "ls_stats"
  /\ StatsCanRLock(call[c].proxy)
  /\ ReaderGoto(c, "ls_stats_l")

\* bytesCaptured, totalConnections := ...; proxy.Stats.mu.RUnlock();
\* activeConnections := proxy.GetConnectionCount()
ListReadStats(c) ==
  /\ EngineStep
  /\ call[c].pc = "ls_stats_l"
  /\ ReaderGoto(c, "ls_buf")

\* proxy.Buffer.GetStats(): rb.mu.Lock()
ListBufLock(c) ==
  /\ EngineStep
  /\ call[c].pc = "ls_buf"
  /\ BufCanLock(call[c].proxy)
  /\ ReaderGoto(c, "ls_buf_l")

\* proxy.Buffer.GetStats(): the body and the deferred Unlock
ListBufStats(c) ==
  /\ EngineStep
  /\ call[c].pc = "ls_buf_l"
  /\ InstUsageHelperRuns(c)
  /\ ReaderGoto(c, "ls_loop")

\* The loop is over: the result is returned.
ListReturn(c) ==
  /\ EngineStep
  /\ call[c].pc = "ls_loop"
  /\ call[c].todo = {}
  /\ ReaderReturn(c, "ok")

ListStep(c) ==
  \/ ListGetAll(c)
  \/ ListNext(c)
  \/ ListStatsRLock(c)
  \/ ListReadStats(c)
  \/ ListBufLock(c)
  \/ ListBufStats(c)
  \/ ListReturn(c)

\* get_proxy_output for one port (port # 0) or for all instances (port = 0).
GetOutputCall(c, port, clear) ==
  ReaderCall(c, "GetOutput", "go_rlock", port, clear)

\* h.manager.GetProxy(listenPort) finds no entry: the error result.
GetOutputMissing(c) ==
  /\ EngineStep
  /\ call[c].pc = "go_rlock"
  /\ CanRLock(c)
  /\ call[c].port # 0
  /\ ~GetProxy(call[c].port).exists
  /\ ReaderReturn(c, "NotFound")

\* proxies = []*ProxyInstance{proxy}, or proxies = GetAllProxies()
GetOutputLookup(c) ==
  /\ EngineStep
  /\ call[c].pc = "go_rlock"
  /\ CanRLock(c)
  /\ call[c].port # 0 => GetProxy(call[c].port).exists
  /\ call' = [call EXCEPT ![c].pc = "go_loop",
                          ![c].todo = IF call[c].port # 0
                                        THEN {GetProxy(call[c].port).proxy}
                                        ELSE GetAllProxies]
  /\ UNCHANGED <<proxies, pmMu, nInst, inst, osPort, nConn, conn, panicked>>

GetOutputNext(c) == ReaderNext(c, "go_loop", "go_all")

\* proxy.Buffer.GetAll(): rb.mu.Lock()
GetOutputGetAllLock(c) ==
  /\ EngineStep
  /\ call[c].pc = "go_all"
  /\ BufCanLock(call[c].proxy)
  /\ ReaderGoto(c, "go_all_l")

\* proxy.Buffer.GetAll(): the body and the deferred Unlock
GetOutputGetAll(c) ==
  /\ EngineStep
  /\ call[c].pc = "go_all_l"
  /\ call' = [call EXCEPT ![c].pc = "go_gs",
                          ![c].captures = RbGetAll(inst[call[c].proxy].Buffer)]
  /\ UNCHANGED <<proxies, pmMu, nInst, inst, osPort, nConn, conn, panicked>>

\* proxy.Buffer.GetStats(): rb.mu.Lock()
GetOutputGetStatsLock(c) ==
  /\ EngineStep
  /\ call[c].pc = "go_gs"
  /\ BufCanLock(call[c].proxy)
  /\ ReaderGoto(c, "go_gs_l")

\* proxy.Buffer.GetStats(): the body and the deferred Unlock
GetOutputGetStats(c) ==
  /\ EngineStep
  /\ call[c].pc = "go_gs_l"
  /\ InstUsageHelperRuns(c)
  /\ call' = [call EXCEPT ![c].pc = "go_stats",
                          ![c].totalBytes =
                            RbGetStats(inst[call[c].proxy].Buffer).bytes]
  /\ UNCHANGED <<proxies, pmMu, nInst, inst, osPort, nConn, conn, panicked>>

\* proxy.Stats.mu.RLock()
GetOutputStatsRLock(c) ==
  /\ EngineStep
  /\ call[c].pc = "go_stats"
  /\ StatsCanRLock(call[c].proxy)
  /\ ReaderGoto(c, "go_stats_l")

\* bytesCaptured := proxy.Stats.BytesCaptured; proxy.Stats.mu.RUnlock();
\* if clearBuffer { ... }
GetOutputReadStats(c) ==
  /\ EngineStep
  /\ call[c].pc = "go_stats_l"
  /\ ReaderGoto(c, IF call[c].clear THEN "go_clr" ELSE "go_loop")

\* proxy.Buffer.Clear(): rb.mu.Lock()
GetOutputClearLock(c) ==
  /\ EngineStep
  /\ call[c].pc = "go_clr"
  /\ BufCanLock(call[c].proxy)
  /\ ReaderGoto(c, "go_clr_l")

\* proxy.Buffer.Clear(): the body and the deferred Unlock
GetOutputClear(c) ==
  /\ EngineStep
  /\ call[c].pc = "go_clr_l"
  /\ inst' = [inst EXCEPT ![call[c].proxy].Buffer = RbClear(@)]
  /\ call' = [call EXCEPT ![c].pc = "go_loop"]
  /\ UNCHANGED <<proxies, pmMu, nInst, osPort, nConn, conn, panicked>>

\* The loop is over: the result is returned.
GetOutputReturn(c) ==
  /\ EngineStep
  /\ call[c].pc = "go_loop"
  /\ call[c].todo = {}
  /\ ReaderReturn(c, "ok")

GetOutputStep(c) ==
  \/ GetOutputMissing(c)
  \/ GetOutputLookup(c)
  \/ GetOutputNext(c)
  \/ GetOutputGetAllLock(c)
  \/ GetOutputGetAll(c)
  \/ GetOutputGetStatsLock(c)
  \/ GetOutputGetStats(c)
  \/ GetOutputStatsRLock(c)
  \/ GetOutputReadStats(c)
  \/ GetOutputClearLock(c)
  \/ GetOutputClear(c)
  \/ GetOutputReturn(c)

(***************************************************************************)
(* ProxyInstance.run: the accept loop of instance i.                       *)
(***************************************************************************)
\* select { case <-p.Done: return; default: ... }
RunSelect(i) ==
  /\ EngineStep
  /\ inst[i].runpc = "sel"
  /\ inst' = [inst EXCEPT ![i].runpc = IF inst[i].Done THEN "ret" ELSE "accept"]
  /\ UNCHANGED <<proxies, pmMu, call, nInst, osPort, nConn, conn, panicked>>

\* The accept error with a plausible slip: an error of Accept ends the loop.
RunAcceptErrorExits(i) ==
  /\ EngineStep
  /\ inst[i].runpc = "accept"
  /\ inst' = [inst EXCEPT ![i].runpc = "ret"]
  /\ UNCHANGED <<proxies, pmMu, call, nInst, osPort, nConn, conn, panicked>>

\* Accept returns an error: the deadline passed, the listener is closed, or
\* some other failure.  Every such error ends in `continue`.
RunAcceptError(i) ==
  /\ EngineStep
  /\ inst[i].runpc = "accept"
  /\ inst' = [inst EXCEPT ![i].runpc = "sel"]
  /\ UNCHANGED <<proxies, pmMu, call, nInst, osPort, nConn, conn, panicked>>

\* Accept returns a client connection (the listener is open).
RunAcceptConn(i) ==
  /\ EngineStep
  /\ inst[i].runpc = "accept"
  /\ inst[i].Listener = "open"
  /\ nConn < load.conns
  /\ nConn' = nConn + 1
  /\ conn' = [conn EXCEPT ![nConn + 1] = [NoConn EXCEPT !.inst = i]]
  /\ inst' = [inst EXCEPT ![i].runpc = "incr", ![i].acc = nConn + 1]
  /\ UNCHANGED <<proxies, pmMu, call, nInst, osPort, panicked>>

\* atomic.AddInt32(&p.connections, 1)
RunIncr(i) ==
  /\ EngineStep
  /\ inst[i].runpc = "incr"
  /\ inst' = [inst EXCEPT ![i].runpc = "stat", ![i].connections = @ + 1]
  /\ UNCHANGED <<proxies, pmMu, call, nInst, osPort, nConn, conn, panicked>>

\* p.Stats.mu.Lock()
RunStatsLock(i) ==
  /\ EngineStep
  /\ inst[i].runpc = "stat"
  /\ StatsCanLock(i)
  /\ inst' = [inst EXCEPT ![i].runpc = "stat_l"]
  /\ UNCHANGED <<proxies, pmMu, call, nInst, osPort, nConn, conn, panicked>>

\* p.Stats.Connections++; p.Stats.mu.Unlock();
\* go p.handleConnection(clientConn)
RunDispatch(i) ==
  /\ EngineStep
  /\ inst[i].runpc = "stat_l"
  /\ inst' = [inst EXCEPT ![i].runpc = "sel", ![i].Connections = @ + 1,
                          ![i].acc = 0]
  /\ conn' = [conn EXCEPT ![inst[i].acc].hpc = "dial"]
  /\ UNCHANGED <<proxies, pmMu, call, nInst, osPort, nConn, panicked>>

RunStep(i) ==
  \/ RunSelect(i)
  \/ RunAcceptError(i)
  \/ RunAcceptConn(i)
  \/ RunIncr(i)
  \/ RunStatsLock(i)
  \/ RunDispatch(i)

(***************************************************************************)
(* ProxyInstance.handleConnection for connection k.                        *)
(***************************************************************************)
\* The failed dial with a plausible slip: the handler returns without its
\* deferred calls.
DialFailNoDefer(k) ==
  /\ EngineStep
  /\ conn[k].hpc = "dial"
  /\ conn' = [conn EXCEPT ![k].hpc = "done"]
  /\ UNCHANGED <<proxies, pmMu, call, nInst, inst, osPort, nConn, panicked>>

\* net.Dial fails: return, running the deferred decrement and Close.
DialFail(k) ==
  /\ EngineStep
  /\ conn[k].hpc = "dial"
  /\ conn' = [conn EXCEPT ![k].hpc = "d_dec"]
  /\ UNCHANGED <<proxies, pmMu, call, nInst, inst, osPort, nConn, panicked>>

\* net.Dial succeeds; connDone is made; go copyWithCapture(Client->Server)
\* and the call of copyWithCapture(Server->Client).
DialOk(k) ==
  /\ EngineStep
  /\ conn[k].hpc = "dial"
  /\ conn' = [conn EXCEPT ![k].hpc = "relay",
                          ![k].rpc = [d \in Dirs |-> "sel"]]
  /\ UNCHANGED <<proxies, pmMu, call, nInst, inst, osPort, nConn, panicked>>

\* The handler's own relay (Server->Client) with a plausible slip: the
\* handler does not wait for it.
RelayReturnedAlways(k) == TRUE

\* The call copyWithCapture(clientConn, serverConn, "Server->Client", ...)
\* has returned.
RelayReturned(k) == conn[k].rpc["Server->Client"] = "ret"

\* The inline relay returned: deferred serverConn.Close()
HandlerCloseServer(k) ==
  /\ EngineStep
  /\ conn[k].hpc = "relay"
  /\ RelayReturned(k)
  /\ conn' = [conn EXCEPT ![k].hpc = "d_dec", ![k].srvClosed = TRUE]
  /\ UNCHANGED <<proxies, pmMu, call, nInst, inst, osPort, nConn, panicked>>

\* deferred atomic.AddInt32(&p.connections, -1)
HandlerDecr(k) ==
  /\ EngineStep
  /\ conn[k].hpc = "d_dec"
  /\ inst' = [inst EXCEPT ![conn[k].inst].connections = @ - 1]
  /\ conn' = [conn EXCEPT ![k].hpc = "d_cli"]
  /\ UNCHANGED <<proxies, pmMu, call, nInst, osPort, nConn, panicked>>

\* deferred clientConn.Close()
HandlerCloseClient(k) ==
  /\ EngineStep
  /\ conn[k].hpc = "d_cli"
  /\ conn' = [conn EXCEPT ![k].hpc = "done", ![k].cliClosed = TRUE]
  /\ UNCHANGED <<proxies, pmMu, call, nInst, inst, osPort, nConn, panicked>>

HandlerStep(k) ==
  \/ DialFail(k)
  \/ DialOk(k)
  \/ HandlerCloseServer(k)
  \/ HandlerDecr(k)
  \/ HandlerCloseClient(k)

(***************************************************************************)
(* ProxyInstance.copyWithCapture for connection k, direction d.            *)
(***************************************************************************)
\* src and dst of the relay of direction d were closed by this process.
SrcClosed(k, d) ==
  IF d = "Client->Server" THEN conn[k].cliClosed ELSE conn[k].srvClosed
DstClosed(k, d) ==
  IF d = "Client->Server" THEN conn[k].srvClosed ELSE conn[k].cliClosed

RelayGoto(k, d, pc) == conn' = [conn EXCEPT ![k].rpc[d] = pc]

\* select { case <-p.Done: return; case <-done: return; default: }
RelaySelect(k, d) ==
  /\ EngineStep
  /\ conn[k].rpc[d] = "sel"
  /\ RelayGoto(k, d, IF inst[conn[k].inst].Done \/ conn[k].connDone
                       THEN "ret" ELSE "read")
  /\ UNCHANGED <<proxies, pmMu, call, nInst, inst, osPort, nConn, panicked>>

\* src.Read returns a timeout after the 1 s deadline (or n = 0): continue.
ReadTimeout(k, d) ==
  /\ EngineStep
  /\ conn[k].rpc[d] = "read"
  /\ ~SrcClosed(k, d)
  /\ RelayGoto(k, d, "sel")
  /\ UNCHANGED <<proxies, pmMu, call, nInst, inst, osPort, nConn, panicked>>

\* The read with a plausible slip: the chunk is forwarded before it is
\* captured.
ReadDataForwardsFirst(k, d) ==
  /\ EngineStep
  /\ conn[k].rpc[d] = "read"
  /\ ~SrcClosed(k, d)
  /\ inst[conn[k].inst].BytesCaptured < load.bytes
  /\ \E n \in ChunkLens :
       conn' = [conn EXCEPT ![k].rpc[d] = "write", ![k].rn[d] = n,
                            ![k].seq[d] = @ + 1]
  /\ UNCHANGED <<proxies, pmMu, call, nInst, inst, osPort, nConn, panicked>>

\* src.Read returns a chunk of n > 0 bytes.
ReadData(k, d) ==
  /\ EngineStep
  /\ conn[k].rpc[d] = "read"
  /\ ~SrcClosed(k, d)
  /\ inst[conn[k].inst].BytesCaptured < load.bytes
  /\ \E n \in ChunkLens :
       conn' = [conn EXCEPT ![k].rpc[d] = "stats", ![k].rn[d] = n,
                            ![k].seq[d] = @ + 1]
  /\ UNCHANGED <<proxies, pmMu, call, nInst, inst, osPort, nConn, panicked>>

\* src.Read returns io.EOF or an error that is no timeout (the peer closed
\* or reset the connection, or this process closed src).
ReadEnd(k, d) ==
  /\ EngineStep
  /\ conn[k].rpc[d] = "read"
  /\ RelayGoto(k, d, "tsel")
  /\ UNCHANGED <<proxies, pmMu, call, nInst, inst, osPort, nConn, panicked>>

\* captureData: p.Stats.mu.Lock()
CaptureStatsLock(k, d) ==
  /\ EngineStep
  /\ conn[k].rpc[d] = "stats"
  /\ StatsCanLock(conn[k].inst)
  /\ RelayGoto(k, d, "stats_l")
  /\ UNCHANGED <<proxies, pmMu, call, nInst, inst, osPort, nConn, panicked>>

\* captureData with a plausible slip: the statistic is not updated before
\* the packet is built and added.
CaptureStatsSkipped(k, d) ==
  /\ EngineStep
  /\ conn[k].rpc[d] = "stats_l"
  /\ RelayGoto(k, d, "add")
  /\ UNCHANGED <<proxies, pmMu, call, nInst, inst, osPort, nConn, panicked>>

\* captureData: p.Stats.BytesCaptured += int64(len(data));
\* p.Stats.mu.Unlock()
CaptureStats(k, d) ==
  /\ EngineStep
  /\ conn[k].rpc[d] = "stats_l"
  /\ inst' = [inst EXCEPT ![conn[k].inst].BytesCaptured = @ + conn[k].rn[d]]
  /\ conn' = [conn EXCEPT ![k].rpc[d] = "add", ![k].cap[d] = @ + conn[k].rn[d]]
  /\ UNCHANGED <<proxies, pmMu, call, nInst, osPort, nConn, panicked>>

\* captureData: capture := &CapturedPacket{...}; p.Buffer.Add(capture)
\* reaches its rb.mu.Lock().
CaptureAddLock(k, d) ==
  /\ EngineStep
  /\ conn[k].rpc[d] = "add"
  /\ BufCanLock(conn[k].inst)
  /\ RelayGoto(k, d, "add_l")
  /\ UNCHANGED <<proxies, pmMu, call, nInst, inst, osPort, nConn, panicked>>

\* captureData with a plausible slip: the relay looks its instance up in
\* the registry by port, instead of using the one that accepted it.
CaptureAddByPort(k, d) ==
  /\ EngineStep
  /\ conn[k].rpc[d] = "add_l"
  /\ LET own == conn[k].inst
         reg == proxies[inst[own].ListenPort]
         i   == IF reg # 0 THEN reg ELSE own
         pkt == [id    |-> inst[i].nCap + 1,
                 dir   |-> d,
                 bytes |-> conn[k].rn[d],
                 raw   |-> conn[k].rn[d],
                 conn  |-> k,
                 seq   |-> conn[k].seq[d]]
     IN  inst' = [inst EXCEPT ![i].Buffer = RbAdd(@, pkt),
                              ![i].nCap   = @ + 1]
  /\ RelayGoto(k, d, "write")
  /\ UNCHANGED <<proxies, pmMu, call, nInst, osPort, nConn, panicked>>

\* captureData: the body of p.Buffer.Add(capture), with its Unlock.
CaptureAdd(k, d) ==
  /\ EngineStep
  /\ conn[k].rpc[d] = "add_l"
  /\ LET i   == conn[k].inst
         pkt == [id    |-> inst[i].nCap + 1,
                 dir   |-> d,
                 bytes |-> conn[k].rn[d],
                 raw   |-> conn[k].rn[d],
                 conn  |-> k,
                 seq   |-> conn[k].seq[d]]
     IN  inst' = [inst EXCEPT ![i].Buffer = RbAdd(@, pkt),
                              ![i].nCap   = @ + 1]
  /\ RelayGoto(k, d, "write")
  /\ UNCHANGED <<proxies, pmMu, call, nInst, osPort, nConn, panicked>>

\* dst.Write returns nil.
WriteOk(k, d) ==
  /\ EngineStep
  /\ conn[k].rpc[d] = "write"
  /\ ~DstClosed(k, d)
  /\ conn' = [conn EXCEPT ![k].rpc[d] = "sel", ![k].rn[d] = 0,
                          ![k].fwd[d] = @ + conn[k].rn[d]]
  /\ UNCHANGED <<proxies, pmMu, call, nInst, inst, osPort, nConn, panicked>>

\* dst.Write does not return: the peer does not read and the send buffer is
\* full.  Write has no deadline.
WriteBlock(k, d) ==
  /\ EngineStep
  /\ conn[k].rpc[d] = "write"
  /\ ~DstClosed(k, d)
  /\ RelayGoto(k, d, "blocked")
  /\ UNCHANGED <<proxies, pmMu, call, nInst, inst, osPort, nConn, panicked>>

\* dst.Write returns an error (the peer reset the connection, or this
\* process closed dst).
WriteError(k, d) ==
  /\ EngineStep
  /\ conn[k].rpc[d] = "write"
  /\ conn' = [conn EXCEPT ![k].rpc[d] = "tsel", ![k].rn[d] = 0]
  /\ UNCHANGED <<proxies, pmMu, call, nInst, inst, osPort, nConn, panicked>>

\* A blocked dst.Write returns an error once this process closes dst.
WriteUnblock(k, d) ==
  /\ EngineStep
  /\ conn[k].rpc[d] = "blocked"
  /\ DstClosed(k, d)
  /\ conn' = [conn EXCEPT ![k].rpc[d] = "tsel", ![k].rn[d] = 0]
  /\ UNCHANGED <<proxies, pmMu, call, nInst, inst, osPort, nConn, panicked>>

\* select { case <-done: (already closed); default: close(done) }: the test
TermSelect(k, d) ==
  /\ EngineStep
  /\ conn[k].rpc[d] = "tsel"
  /\ RelayGoto(k, d, IF conn[k].connDone THEN "ret" ELSE "tclose")
  /\ UNCHANGED <<proxies, pmMu, call, nInst, inst, osPort, nConn, panicked>>

\* close(done); return.  Closing a closed channel panics.
TermClose(k, d) ==
  /\ EngineStep
  /\ conn[k].rpc[d] = "tclose"
  /\ IF conn[k].connDone
       THEN /\ panicked' = TRUE
            /\ UNCHANGED conn
       ELSE /\ conn' = [conn EXCEPT ![k].rpc[d] = "ret", ![k].connDone = TRUE]
            /\ UNCHANGED panicked
  /\ UNCHANGED <<proxies, pmMu, call, nInst, inst, osPort, nConn>>

RelayStep(k, d) ==
  \/ RelaySelect(k, d)
  \/ ReadTimeout(k, d)
  \/ ReadData(k, d)
  \/ ReadEnd(k, d)
  \/ CaptureStatsLock(k, d)
  \/ CaptureStats(k, d)
  \/ CaptureAddLock(k, d)
  \/ CaptureAdd(k, d)
  \/ WriteOk(k, d)
  \/ WriteBlock(k, d)
  \/ WriteError(k, d)
  \/ WriteUnblock(k, d)
  \/ TermSelect(k, d)
  \/ TermClose(k, d)

(***************************************************************************)
(* The specifications of the proxy engine.                                 *)
(***************************************************************************)
\* Caller c enters a ProxyManager method, for a port of P.
CallStep(c, P) ==
  \/ \E p \in P, limit \in CaptureLimits : StartLock(c, p, limit)
  \/ \E p \in P : StopLock(c, p)
  \/ StopAllLock(c)

\* A caller inside a ProxyManager method takes its next step.
MethodStep(c) ==
  \/ StartExists(c)
  \/ StartCheckOk(c)
  \/ StartBindFail(c)
  \/ StartBindOk(c)
  \/ StartCreate(c)
  \/ StopNotFound(c)
  \/ StopFound(c)
  \/ StopCloseDone(c)
  \/ StopCloseListener(c)
  \/ StopStatsRLock(c)
  \/ StopReadStats(c)
  \/ StopDelete(c)
  \/ StopAllNext(c)
  \/ StopAllCloseDone(c)
  \/ StopAllCloseListener(c)
  \/ StopAllClear(c)

\* The stand-alone buffer is not used by the proxy engine.
BufIdle ==
  /\ rb = NewRingBuffer(0)
  /\ rbMu = "free"
  /\ bpc = [t \in BufThreads |-> "idle"]
  /\ barg = [t \in BufThreads |-> NoPkt]
  /\ snap = <<>>
  /\ stat = NoStat
  /\ hist = <<>>
  /\ nAdds = 0

\* Spec: the engine with traffic.  One caller starts and stops proxies on
\* one port; clients connect, and the handlers and relays run.
SoloCaller == "a"
SoloPorts == {1}

Init ==
  /\ ProxyInit
  /\ BufIdle
  /\ SniffIdle
  /\ \A p \in Ports \ SoloPorts : osPort[p] = "free"

Next ==
  \/ CallStep(SoloCaller, SoloPorts)
  \/ MethodStep(SoloCaller)
  \/ \E i \in InstIds : RunStep(i)
  \/ \E k \in ConnIds : HandlerStep(k)
  \/ \E k \in ConnIds, d \in Dirs : RelayStep(k, d)

Spec == Init /\ [][Next]_vars

\* The Go scheduler runs every goroutine that can take a step: the method
\* call in progress, each accept loop, each handler and each relay.  Nothing
\* obliges callers to call or peers to send, read or close.
Fairness ==
  /\ WF_vars(MethodStep(SoloCaller))
  /\ \A i \in InstIds : WF_vars(RunStep(i))
  /\ \A k \in ConnIds : WF_vars(HandlerStep(k))
  /\ \A k \in ConnIds, d \in Dirs : WF_vars(RelayStep(k, d))

FairSpec == Spec /\ Fairness

\* SpecReg: the registry under concurrent callers.  All callers start and
\* stop proxies on all ports; the accept loops run, and no client connects.
RunIdleStep(i) ==
  \/ RunSelect(i)
  \/ RunAcceptError(i)

InitReg == ProxyInit /\ BufIdle /\ SniffIdle

NextReg ==
  \/ \E c \in Callers : CallStep(c, Ports) \/ MethodStep(c)
  \/ \E i \in InstIds : RunIdleStep(i)

SpecReg == InitReg /\ [][NextReg]_vars

\* The Go scheduler runs each accept loop; nothing obliges the callers.
FairSpecReg == SpecReg /\ \A i \in InstIds : WF_vars(RunIdleStep(i))

(***************************************************************************)
(* SpecLock: the three lock domains.  One caller starts (LockStarts times) *)
(* and stops proxies on one port while another calls list_proxies and      *)
(* get_proxy_output; clients connect, and the handlers and relays run.     *)
(***************************************************************************)
ReaderCaller == "b"

\* The reading caller enters a handler: list_proxies, or get_proxy_output
\* for one port with clear_buffer at its default (true).
ReaderCallStep(c) ==
  \/ ListCall(c)
  \/ \E p \in SoloPorts : GetOutputCall(c, p, TRUE)

\* The writing caller enters a ProxyManager method.
WriterCallStep(c) ==
  \/ \E p \in SoloPorts, limit \in CaptureLimits :
       StartLock(c, p, limit) /\ (nInst < LockStarts \/ proxies[p] # 0)
  \/ \E p \in SoloPorts : StopLock(c, p)
  \/ StopAllLock(c)

\* The relay while both peers stay connected and keep reading and only the
\* client sends: it selects, reads, captures and forwards.  The silent
\* direction's relay keeps timing out in Read.  The accept loop and the
\* sending relay still contend for Stats.mu as two writers.
RelayTransferStep(k, d) ==
  \/ RelaySelect(k, d)
  \/ ReadTimeout(k, d)
  \/ ReadData(k, d) /\ d = "Client->Server"
  \/ CaptureStatsLock(k, d)
  \/ CaptureStats(k, d)
  \/ CaptureAddLock(k, d)
  \/ CaptureAdd(k, d)
  \/ WriteOk(k, d)

\* The handler while the upstream accepts the dial.
HandlerTransferStep(k) ==
  \/ DialOk(k)
  \/ HandlerCloseServer(k)
  \/ HandlerDecr(k)
  \/ HandlerCloseClient(k)

NextLock ==
  \/ WriterCallStep(SoloCaller)
  \/ MethodStep(SoloCaller)
  \/ ReaderCallStep(ReaderCaller)
  \/ ListStep(ReaderCaller)
  \/ GetOutputStep(ReaderCaller)
  \/ \E i \in InstIds : RunStep(i)
  \/ \E k \in ConnIds : HandlerTransferStep(k)
  \/ \E k \in ConnIds, d \in Dirs : RelayTransferStep(k, d)

SpecLock == Init /\ [][NextLock]_vars

\* The Go scheduler runs the method call in progress, each accept loop and
\* each relay; the reading handler in progress runs on, and is not passed
\* over forever for a lock it waits for (sync.Mutex hands the lock to a
\* starving waiter, and a writer's Unlock of sync.RWMutex admits the
\* waiting readers).
LockFairness ==
  /\ WF_vars(MethodStep(SoloCaller))
  /\ \A i \in InstIds : WF_vars(RunStep(i))
  /\ \A k \in ConnIds, d \in Dirs : WF_vars(RelayTransferStep(k, d))
  /\ SF_vars(ListStep(ReaderCaller))
  /\ SF_vars(GetOutputStep(ReaderCaller))

FairSpecLock == SpecLock /\ LockFairness

(***************************************************************************)
(* SpecXfer: the data path of one running instance.  One caller starts a   *)
(* proxy on one port and never stops it; XferConn clients connect, the     *)
(* dials succeed, and the peers stay connected, send and read until        *)
(* XferBytes bytes are captured.                                           *)
(***************************************************************************)
XferLimits == {3}
XferLoad == [conns |-> XferConn, bytes |-> XferBytes]

InitXfer ==
  /\ proxies = [p \in Ports |-> 0]
  /\ pmMu = "free"
  /\ call = [c \in Callers |-> IdleCall]
  /\ nInst = 0
  /\ inst = [i \in InstIds |-> NoInst]
  /\ osPort = [p \in Ports |-> "free"]
  /\ nConn = 0
  /\ conn = [k \in ConnIds |-> NoConn]
  /\ panicked = FALSE
  /\ load = XferLoad
  /\ BufIdle
  /\ SniffIdle

\* The caller starts the proxy.
XferStartStep(c) ==
  \/ \E p \in SoloPorts, limit \in XferLimits :
       StartLock(c, p, limit) /\ nInst = 0
  \/ StartCheckOk(c)
  \/ StartBindOk(c)
  \/ StartCreate(c)

\* The relay while both peers stay connected, send and read.
RelayDataStep(k, d) ==
  \/ RelaySelect(k, d)
  \/ ReadData(k, d)
  \/ CaptureStatsLock(k, d)
  \/ CaptureStats(k, d)
  \/ CaptureAddLock(k, d)
  \/ CaptureAdd(k, d)
  \/ WriteOk(k, d)

NextXfer ==
  \/ XferStartStep(SoloCaller)
  \/ \E i \in InstIds : RunStep(i)
  \/ \E k \in ConnIds : DialOk(k)
  \/ \E k \in ConnIds, d \in Dirs : RelayDataStep(k, d)

SpecXfer == InitXfer /\ [][NextXfer]_vars

(***************************************************************************)
(* SpecBuf: threads calling Add, Clear and GetAll on one RingBuffer.       *)
(* A method is two steps: rb.mu.Lock(), then the body with the deferred    *)
(* rb.mu.Unlock().                                                         *)
(***************************************************************************)
BufInit ==
  /\ rb \in {NewRingBuffer(m) : m \in BufBudgets}
  /\ rbMu = "free"
  /\ bpc = [t \in BufThreads |-> "idle"]
  /\ barg = [t \in BufThreads |-> NoPkt]
  /\ snap = <<>>
  /\ stat = NoStat
  /\ hist = <<>>
  /\ nAdds = 0

\* rb.mu.Lock() of method m by thread t.
BufLock(t, m) ==
  /\ bpc[t] = "idle"
  /\ rbMu = "free"
  /\ rbMu' = t
  /\ bpc' = [bpc EXCEPT ![t] = m]

AddLock(t) ==
  /\ nAdds < MaxAdds
  /\ BufLock(t, "Add")
  /\ \E n \in 0..MaxRawLen :
       barg' = [barg EXCEPT ![t] = [id |-> nAdds + 1, dir |-> "Test",
                                    bytes |-> n, raw |-> n,
                                    conn |-> 0, seq |-> 0]]
  /\ nAdds' = nAdds + 1
  /\ UNCHANGED <<rb, snap, stat, hist, proxyVars, sniffVars,
               envVars>>

AddBody(t) ==
  /\ bpc[t] = "Add"
  /\ rb' = RbAdd(rb, barg[t])
  /\ hist' = Append(hist, barg[t])
  /\ rbMu' = "free"
  /\ bpc' = [bpc EXCEPT ![t] = "idle"]
  /\ barg' = [barg EXCEPT ![t] = NoPkt]
  /\ UNCHANGED <<snap, stat, nAdds, proxyVars, sniffVars,
               envVars>>

ClearLock(t) ==
  /\ BufLock(t, "Clear")
  /\ UNCHANGED <<rb, barg, snap, stat, hist, nAdds, proxyVars, sniffVars,
               envVars>>

ClearBody(t) ==
  /\ bpc[t] = "Clear"
  /\ rb' = RbClear(rb)
  /\ hist' = <<>>
  /\ rbMu' = "free"
  /\ bpc' = [bpc EXCEPT ![t] = "idle"]
  /\ UNCHANGED <<barg, snap, stat, nAdds, proxyVars, sniffVars,
               envVars>>

GetAllLock(t) ==
  /\ BufLock(t, "GetAll")
  /\ UNCHANGED <<rb, barg, snap, stat, hist, nAdds, proxyVars, sniffVars,
               envVars>>

GetAllBody(t) ==
  /\ bpc[t] = "GetAll"
  /\ snap' = RbGetAll(rb)
  /\ rbMu' = "free"
  /\ bpc' = [bpc EXCEPT ![t] = "idle"]
  /\ UNCHANGED <<rb, barg, stat, hist, nAdds, proxyVars, sniffVars,
               envVars>>

\* The helper with a plausible slip: it locks rb.mu itself, as the public
\* GetUsagePercent does, so it needs the mutex free.
UsageHelperRelocks(t) == rbMu = "free"

\* getUsagePercentLocked called by thread t: it takes no lock and relies on
\* the caller holding rb.mu.
UsageHelperRuns(t) == rbMu = t

\* Thread t calls method m and reaches its rb.mu.Lock().
StatsCall(t, m) ==
  /\ bpc[t] = "idle"
  /\ bpc' = [bpc EXCEPT ![t] = m]
  /\ UNCHANGED <<rb, rbMu, barg, snap, stat, hist, nAdds, proxyVars, sniffVars,
               envVars>>

\* rb.mu.Lock() returns for thread t waiting at pc `from`.
StatsLock(t, from, to) ==
  /\ bpc[t] = from
  /\ rbMu = "free"
  /\ rbMu' = t
  /\ bpc' = [bpc EXCEPT ![t] = to]
  /\ UNCHANGED <<rb, barg, snap, stat, hist, nAdds, proxyVars, sniffVars,
               envVars>>

GetStatsCall(t) == StatsCall(t, "GetStats:Lock")

GetStatsLock(t) == StatsLock(t, "GetStats:Lock", "GetStats")

\* return rb.count, rb.currentSize, rb.getUsagePercentLocked()
GetStatsBody(t) ==
  /\ bpc[t] = "GetStats"
  /\ UsageHelperRuns(t)
  /\ stat' = RbGetStats(rb)
  /\ rbMu' = "free"
  /\ bpc' = [bpc EXCEPT ![t] = "idle"]
  /\ UNCHANGED <<rb, barg, snap, hist, nAdds, proxyVars, sniffVars,
               envVars>>

GetUsagePercentCall(t) == StatsCall(t, "GetUsagePercent:Lock")

GetUsagePercentLock(t) ==
  StatsLock(t, "GetUsagePercent:Lock", "GetUsagePercent")

\* return rb.getUsagePercentLocked()
GetUsagePercentBody(t) ==
  /\ bpc[t] = "GetUsagePercent"
  /\ UsageHelperRuns(t)
  /\ stat' = [stat EXCEPT !.usage = getUsagePercentLocked(rb)]
  /\ rbMu' = "free"
  /\ bpc' = [bpc EXCEPT ![t] = "idle"]
  /\ UNCHANGED <<rb, barg, snap, hist, nAdds, proxyVars, sniffVars,
               envVars>>

\* Thread t, holding rb.mu, runs the body of its method and unlocks.
BufBodyStep(t) ==
  \/ AddBody(t)
  \/ ClearBody(t)
  \/ GetAllBody(t)
  \/ GetStatsBody(t)
  \/ GetUsagePercentBody(t)

\* rb.mu.Lock() returns for thread t waiting in GetStats or GetUsagePercent.
BufLockStep(t) ==
  \/ GetStatsLock(t)
  \/ GetUsagePercentLock(t)

BufNext ==
  \E t \in BufThreads :
    \/ AddLock(t)
    \/ AddBody(t)
    \/ ClearLock(t)
    \/ ClearBody(t)
    \/ GetAllLock(t)
    \/ GetAllBody(t)

InitBuf ==
  /\ BufInit
  /\ ProxyInit
  /\ SniffIdle
  /\ \A p \in Ports : osPort[p] = "free"

SpecBuf == InitBuf /\ [][BufNext]_vars

(***************************************************************************)
(* SpecStats: threads calling every RingBuffer method, the statistics      *)
(* included, on a buffer of budget StatBudget, with at most StatAdds Add   *)
(* calls in a run.                                                         *)
(***************************************************************************)
InitStats == InitBuf /\ rb = NewRingBuffer(StatBudget)

StatsNext ==
  \E t \in BufThreads :
    \/ AddLock(t) /\ nAdds < StatAdds
    \/ ClearLock(t)
    \/ GetAllLock(t)
    \/ GetStatsCall(t)
    \/ GetUsagePercentCall(t)
    \/ BufLockStep(t)
    \/ BufBodyStep(t)

SpecStats == InitStats /\ [][StatsNext]_vars

\* A thread holding rb.mu runs on to its Unlock, and sync.Mutex hands the
\* lock to a goroutine that keeps waiting for it (starvation mode): a waiter
\* is not passed over forever.
BufFairness ==
  \A t \in BufThreads : WF_vars(BufBodyStep(t)) /\ SF_vars(BufLockStep(t))

FairSpecStats == SpecStats /\ BufFairness

(***************************************************************************)
(* Properties of the RingBuffer (checked under SpecBuf).                   *)
(***************************************************************************)
RECURSIVE SumRaw(_)
SumRaw(s) == IF s = <<>> THEN 0 ELSE Head(s).raw + SumRaw(Tail(s))

Ids(s) == [i \in 1..Len(s) |-> s[i].id]
RawLens(s) == [i \in 1..Len(s) |-> s[i].raw]

\* got is the most recent Len(got) elements of all, in the same order.
IsRecentSuffix(got, all) ==
  /\ Len(got) <= Len(all)
  /\ got = SubSeq(all, Len(all) - Len(got) + 1, Len(all))

\* C1: after every Add and Clear, under every interleaving, the byte usage
\* of the buffer is at most its budget and equals the sum of the raw-data
\* lengths of the retained packets; after an Add of a packet longer than the
\* budget the packet is retained truncated to the budget and the usage is
\* exactly the budget.
C1_UsageWithinBudget ==
  /\ rb.currentSize <= rb.maxSize
  /\ rb.currentSize = SumRaw(RbGetAll(rb))
  /\ (hist # <<>> /\ hist[Len(hist)].raw > rb.maxSize) =>
       /\ rb.currentSize = rb.maxSize
       /\ rb.count >= 1
       /\ RbGetAll(rb)[rb.count].id = hist[Len(hist)].id
       /\ RbGetAll(rb)[rb.count].raw = rb.maxSize

\* C1 witness: an oversized packet was added to a buffer that held packets.
C1_Witness ==
  /\ rbMu = "free"
  /\ Len(hist) >= 2
  /\ hist[Len(hist)].raw > rb.maxSize
  /\ hist[Len(hist) - 1].raw > 0
  /\ rb.currentSize = rb.maxSize

\* C2: eviction is FIFO: the packets GetAll returns are the most recent
\* packets added since the last Clear, contiguous and in insertion order,
\* whatever the wrap-around and growth of the storage; with budget 2 and
\* three packets of size 1 added, exactly the second and third remain.
C2_FifoSuffix ==
  /\ Len(RbGetAll(rb)) = rb.count
  /\ IsRecentSuffix(Ids(RbGetAll(rb)), Ids(hist))
  /\ (rb.maxSize = 2 /\ RawLens(hist) = <<1, 1, 1>>) =>
       Ids(RbGetAll(rb)) = <<hist[2].id, hist[3].id>>

\* C2 witness: packets were evicted, and the storage has grown and is
\* wrapped around (the oldest packet is not in slot 0).
C2_Witness ==
  /\ rbMu = "free"
  /\ Len(rb.data) > InitialCapacity
  /\ rb.tail > 0
  /\ rb.head <= rb.tail
  /\ rb.count >= 2
  /\ Len(hist) > rb.count
  /\ snap = RbGetAll(rb)

(***************************************************************************)
(* Properties of the registry (checked under SpecReg and Spec).            *)
(***************************************************************************)
Created == 1..nInst

\* Caller c is inside a ProxyManager method or a tool handler.
InMethod(c) == call[c].pc # "idle"

\* The step returns caller c from the method it was in at position pc.
Returns(c, pc) == call[c].pc = pc /\ call'[c].pc = "idle"

\* C3: under concurrent calls of StartProxy the existence check, the bind
\* and the insertion are one atomic step: at most one caller is inside a
\* registry method, and it holds pm.mu; an entry for a port is an instance
\* of that port; no two instances hold an open listener for the same port;
\* an open listener belongs to the registered instance of its port; and a
\* bound port of this process belongs to an open listener or to the one
\* StartProxy that is about to register it.
C3_StartAtomic ==
  /\ \A c1, c2 \in Callers : InMethod(c1) /\ InMethod(c2) => c1 = c2
  /\ \A c \in Callers : InMethod(c) => pmMu = c
  /\ \A p \in Ports : proxies[p] # 0 =>
       proxies[p] \in Created /\ inst[proxies[p]].ListenPort = p
  /\ \A i, j \in Created :
       (/\ inst[i].Listener = "open"
        /\ inst[j].Listener = "open"
        /\ inst[i].ListenPort = inst[j].ListenPort) => i = j
  /\ \A i \in Created :
       inst[i].Listener = "open" => proxies[inst[i].ListenPort] = i
  /\ \A p \in Ports : osPort[p] = "proc" =>
       \/ proxies[p] # 0 /\ inst[proxies[p]].Listener = "open"
       \/ \E c \in Callers : call[c].pc = "st_create" /\ call[c].port = p

\* C3 witness: two StartProxy calls for one port; the first registered an
\* instance, the second failed its existence check.
C3_Witness ==
  \E c1, c2 \in Callers :
    /\ c1 # c2
    /\ call[c1].op = "Start" /\ call[c1].ret = "ok"
    /\ call[c2].op = "Start" /\ call[c2].ret = "AlreadyRunning"
    /\ call[c1].port = call[c2].port
    /\ proxies[call[c1].port] # 0

\* C4: StartProxy on a port that has an entry returns the AlreadyRunning
\* error straight from the existence check, without a bind, and changes
\* neither the registry nor any instance, connection or port; the existing
\* instance is still among the instances GetAllProxies returns.
C4_StartOnRunningPort ==
  [][\A c \in Callers :
       (/\ call[c].pc = "st_check"
        /\ proxies[call[c].port] # 0
        /\ call'[c] # call[c]) =>
         /\ call'[c].pc = "idle"
         /\ call'[c].ret = "AlreadyRunning"
         /\ proxies' = proxies
         /\ inst' = inst
         /\ conn' = conn
         /\ osPort' = osPort
         /\ proxies[call[c].port] \in GetAllProxies']_vars

\* C4 witness: StartProxy returned AlreadyRunning for a port whose instance
\* has captured traffic.
C4_Witness ==
  \E c \in Callers :
    /\ call[c].op = "Start" /\ call[c].ret = "AlreadyRunning"
    /\ proxies[call[c].port] # 0
    /\ inst[proxies[call[c].port]].BytesCaptured > 0
    /\ inst[proxies[call[c].port]].Buffer.count > 0

\* C5: StopProxy on a port without an entry returns the NotFound error and
\* the byte count 0, and changes neither the registry nor any instance
\* (stop signal, listener) nor any port.
C5_StopUnknownPort ==
  [][\A c \in Callers :
       (/\ call[c].pc = "sp_lookup"
        /\ proxies[call[c].port] = 0
        /\ call'[c] # call[c]) =>
         /\ call'[c].pc = "idle"
         /\ call'[c].ret = "NotFound"
         /\ call'[c].retBytes = 0
         /\ proxies' = proxies
         /\ inst' = inst
         /\ osPort' = osPort]_vars

\* C5 witness: StopProxy returned NotFound while another port had a running
\* instance.
C5_Witness ==
  \E c \in Callers :
    /\ call[c].op = "Stop" /\ call[c].ret = "NotFound"
    /\ \E p \in Ports :
         /\ p # call[c].port
         /\ proxies[p] # 0
         /\ inst[proxies[p]].Listener = "open"
         /\ ~inst[proxies[p]].Done

\* C6: a StartProxy that passed the existence check and whose bind fails
\* returns the BindError and creates no entry, no instance and no accept
\* loop; one whose bind succeeds returns success only with the instance
\* registered under its port, its listener open and its accept loop started.
C6_BindOutcome ==
  [][\A c \in Callers :
       /\ (call[c].pc = "st_listen" /\ osPort[call[c].port] # "free"
           /\ call'[c] # call[c]) =>
            /\ call'[c].pc = "idle"
            /\ call'[c].ret = "BindError"
            /\ proxies' = proxies
            /\ nInst' = nInst
            /\ inst' = inst
            /\ osPort' = osPort
       /\ (call[c].op = "Start" /\ InMethod(c) /\ call'[c].pc = "idle"
           /\ call'[c].ret = "ok") =>
            /\ nInst' = nInst + 1
            /\ proxies'[call[c].port] = nInst'
            /\ inst'[nInst'].ListenPort = call[c].port
            /\ inst'[nInst'].Listener = "open"
            /\ inst'[nInst'].runpc = "sel"
            /\ osPort'[call[c].port] = "proc"]_vars

\* C6 witness: one StartProxy failed to bind a port held by another process
\* while an instance started by another call is running its accept loop.
C6_Witness ==
  \E c \in Callers :
    /\ call[c].op = "Start" /\ call[c].ret = "BindError"
    /\ osPort[call[c].port] = "ext"
    /\ proxies[call[c].port] = 0
    /\ \E p \in Ports :
         proxies[p] # 0 /\ inst[proxies[p]].runpc \in {"sel", "accept"}

\* A relay of instance i has not returned yet.
Unwinding(i) ==
  \E k \in ConnIds, d \in Dirs :
    conn[k].inst = i /\ conn[k].rpc[d] \notin {"none", "ret"}

\* C7: when StopProxy(p) returns success the entry of p is removed, the
\* instance's Done channel is closed, its listener is closed and the port
\* is free again, so that the existence check and the bind of a following
\* StartProxy(p) succeed, whatever the relays of the stopped instance do.
C7_StopFreesPort ==
  [][\A c \in Callers :
       Returns(c, "sp_delete") =>
         /\ call'[c].ret = "ok"
         /\ proxies'[call[c].port] = 0
         /\ inst'[call[c].proxy].Done
         /\ inst'[call[c].proxy].Listener = "closed"
         /\ osPort'[call[c].port] = "free"]_vars

\* C7 witness: after StopProxy(p) a new instance is registered for p while
\* a relay of the stopped instance is still running.
C7_Witness ==
  \E i, j \in Created :
    /\ i # j
    /\ inst[i].stopRet # -1
    /\ inst[i].ListenPort = inst[j].ListenPort
    /\ proxies[inst[j].ListenPort] = j
    /\ inst[j].Listener = "open"
    /\ Unwinding(i)

(***************************************************************************)
(* Properties of shutdown (checked under Spec and FairSpec).               *)
(***************************************************************************)
\* The instance of connection k was told to stop.
Stopped(k) == conn[k].inst # 0 /\ inst[conn[k].inst].Done

\* C8: when an instance is stopped while a connection is in transfer, both
\* relays of the connection eventually return, and the handler eventually
\* closes both ends and decrements the active-connection counter (a panic
\* ends every task with the process).
C8_RelaysEndAfterStop ==
  /\ \A k \in ConnIds, d \in Dirs :
       (Stopped(k) /\ conn[k].rpc[d] \notin {"none", "ret"})
         ~> (conn[k].rpc[d] = "ret" \/ panicked)
  /\ \A k \in ConnIds :
       (Stopped(k) /\ conn[k].hpc = "relay")
         ~> (conn[k].hpc = "done" \/ panicked)

\* The goroutine of the relay of direction d of connection k can take a
\* step.  The Server->Client relay runs in the handler's goroutine.
RelayCanStep(k, d) == ENABLED RelayStep(k, d)

C10_StopCountFinal ==
  \A i \in Created :
    inst[i].stopRet # -1 => inst[i].BytesCaptured = inst[i].stopRet

(***************************************************************************)
(* Properties of the RingBuffer statistics (checked under FairSpecStats).    *)
(***************************************************************************)
\* Thread t is inside GetStats or GetUsagePercent (waiting for or holding
\* rb.mu).
InStats(t) ==
  bpc[t] \in {"GetStats:Lock", "GetStats",
              "GetUsagePercent:Lock", "GetUsagePercent"}

\* C11: GetStats and GetUsagePercent lock rb.mu once and never lock it
\* again while holding it: a thread that holds the mutex inside one of them
\* can run its body and unlock, the mutex is held exactly by a thread that
\* is inside a locked body, and under every interleaving with Add, GetStats
\* and GetUsagePercent calls of other threads each call eventually returns.
C11_StatsCallsReturn ==
  /\ [](\A t \in BufThreads :
         /\ bpc[t] \in {"GetStats", "GetUsagePercent"} =>
              rbMu = t /\ ENABLED BufBodyStep(t)
         /\ rbMu = t <=> bpc[t] \in {"Add", "Clear", "GetAll", "GetStats",
                                      "GetUsagePercent"})
  /\ \A t \in BufThreads : InStats(t) ~> bpc[t] = "idle"

\* C11 witness: one thread holds the mutex inside GetStats while the other
\* waits for it in GetUsagePercent, on a buffer that holds packets.
C11_Witness ==
  \E t, u \in BufThreads :
    /\ bpc[t] = "GetStats"
    /\ bpc[u] = "GetUsagePercent:Lock"
    /\ rb.count > 0
    /\ stat.packets > 0

(***************************************************************************)
(* Properties of Clear (checked under SpecBuf) and of the reading methods  *)
(* (checked under SpecStats).                                              *)
(***************************************************************************)
\* Thread t returns from method m in this step.
BufReturns(t, m) == bpc[t] = m /\ bpc'[t] = "idle"

\* Packets handed to Add after a Clear, to compare with a fresh buffer.
ProbePkts(id) ==
  {[id |-> id, dir |-> "Test", bytes |-> n, raw |-> n, conn |-> 0, seq |-> 0] :
     n \in 0..MaxRawLen}

\* Buffers a and b show the same packets, count and usage.
SameContents(a, b) ==
  /\ RbGetAll(a) = RbGetAll(b)
  /\ a.count = b.count
  /\ a.currentSize = b.currentSize
  /\ a.maxSize = b.maxSize

\* C13: when Clear returns, whatever the buffer held, the count and the
\* byte usage are 0, GetAll returns the empty sequence, every slot is nil,
\* the budget is unchanged, and Adds that follow give what they give on a
\* fresh buffer of that budget.
C13_ClearResets ==
  [][\A t \in BufThreads :
       BufReturns(t, "Clear") =>
         /\ rb'.count = 0
         /\ rb'.currentSize = 0
         /\ RbGetAll(rb') = <<>>
         /\ \A i \in 1..Len(rb'.data) : rb'.data[i] = NoPkt
         /\ rb'.maxSize = rb.maxSize
         /\ \A p \in ProbePkts(1) :
              \A a1 \in {RbAdd(rb', p)},
                 f1 \in {RbAdd(NewRingBuffer(rb.maxSize), p)} :
                /\ SameContents(a1, f1)
                /\ \A q \in ProbePkts(2) :
                     \A a2 \in {RbAdd(a1, q)}, f2 \in {RbAdd(f1, q)} :
                       /\ SameContents(a2, f2)
                       /\ \A r \in ProbePkts(3) :
                            SameContents(RbAdd(a2, r), RbAdd(f2, r))]_vars

\* C13 witness: a buffer whose storage had grown was cleared, and one
\* packet was added since.
C13_Witness ==
  /\ rbMu = "free"
  /\ Len(rb.data) > InitialCapacity
  /\ Len(hist) = 1
  /\ rb.count = 1
  /\ rb.currentSize > 0

\* C14: GetAll returns the retained packets oldest first, as they are at
\* one moment between Adds and Clears (the most recent rb.count packets
\* added since the last Clear, none of them nil), and changes nothing of
\* the buffer; GetStats and GetUsagePercent change nothing of it either.
C14_ReadsLeaveBuffer ==
  [][\A t \in BufThreads :
       /\ BufReturns(t, "GetAll") =>
            /\ rb' = rb
            /\ hist' = hist
            /\ Len(snap') = rb.count
            /\ \A i \in 1..Len(snap') :
                 /\ snap'[i] # NoPkt
                 /\ snap'[i].id = hist[Len(hist) - rb.count + i].id
       /\ (BufReturns(t, "GetStats") \/ BufReturns(t, "GetUsagePercent")) =>
            /\ rb' = rb
            /\ hist' = hist
            /\ snap' = snap]_vars

\* C14 witness: GetAll returned two packets of a wrapped-around buffer
\* that had evicted a packet, and GetStats reported them.
C14_Witness ==
  /\ rbMu = "free"
  /\ Len(snap) = 2
  /\ rb.tail > 0
  /\ Len(hist) > rb.count
  /\ snap = RbGetAll(rb)
  /\ stat.packets = 2
  /\ stat.bytes = rb.currentSize

(***************************************************************************)
(* SpecSniff: captureData analyses one chunk (protocol, ASCII strings).    *)
(***************************************************************************)
StrHello == <<104, 101, 108, 108, 111, 32, 119, 111, 114, 108, 100>>
Str4 == <<97, 98, 99, 100>>
Str5 == <<97, 98, 99, 100, 101>>

\* s repeated n times.
RECURSIVE Rep(_, _)
Rep(s, n) == IF n = 0 THEN <<>> ELSE s \o Rep(s, n - 1)

\* Chunks for the sniffer: a start, a middle and an end.
SniffHeads ==
  {<<>>, StrGET, StrPOST, StrPUT, StrDELETE, StrHEAD, StrOPTIONS, StrHTTP1,
   StrPRI, <<22, 3>>, <<22, 3, 1>>, <<22, 2>>, <<71, 69, 84>>,
   <<103, 101, 116, 32>>, <<32>>}
SniffMids == {<<>>, StrGrpc, StrProto, <<47, 103, 114, 112, 99>>, StrHello,
              <<0, 0, 0>>}
SniffTails == {<<>>, StrGET, <<1, 2, 3, 4>>}
SniffChunks ==
  {h \o m \o t : h \in SniffHeads, m \in SniffMids, t \in SniffTails}

\* Chunks for the extraction: three pieces (runs of 4 and 5 printable
\* bytes, the bytes at both ends of the printable range and next to it),
\* and chunks of 9 to 12 runs.
AsciiPieces ==
  {<<>>, Str4, Str5, StrHello, <<0>>, <<31>>, <<32>>, <<126>>, <<127>>,
   <<200>>}
AsciiChunks ==
  {a \o b \o c : a \in AsciiPieces, b \in AsciiPieces, c \in AsciiPieces}
    \cup {Rep(Str5 \o <<0>>, n) \o t : n \in 9..12, t \in {<<>>, Str5, Str4}}

InitSniff ==
  /\ ProxyInit
  /\ \A p \in Ports : osPort[p] = "free"
  /\ BufIdle
  /\ chunk \in SniffChunks \cup AsciiChunks
  /\ out = NoOut

\* captureData: protocol := detectProtocol(data);
\* asciiStrings := extractAsciiStrings(data)
CaptureAnalyse ==
  /\ ~out.done
  /\ out' = [done         |-> TRUE,
             protocol     |-> detectProtocol(chunk),
             asciiStrings |-> extractAsciiStrings(chunk)]
  /\ UNCHANGED <<chunk, bufVars, proxyVars, envVars>>

SpecSniff == InitSniff /\ [][CaptureAnalyse]_vars

(***************************************************************************)
(* Properties of the sniffer and the extraction (checked under SpecSniff). *)
(***************************************************************************)
\* The rules of the sniffer in their order, each with whether it matches.
SniffRules(data) ==
  <<[label |-> "HTTP/1.x",
     match |-> \E m \in {StrGET, StrPOST, StrPUT, StrDELETE, StrHEAD,
                          StrOPTIONS, StrHTTP1} : HasPrefix(data, m)],
    [label |-> "HTTP/2", match |-> HasPrefix(data, StrPRI)],
    [label |-> "gRPC",
     match |-> Contains(data, StrGrpc) \/ Contains(data, StrProto)],
    [label |-> "TLS",
     match |-> Len(data) > 5 /\ SubSeq(data, 1, 2) = <<22, 3>>],
    [label |-> "Unknown", match |-> TRUE]>>

\* C17: the label computed for a chunk is that of the first rule that
\* matches, in the order HTTP/1.x, HTTP/2, gRPC, TLS, Unknown, and computing
\* it changes nothing else; 'GET ' followed by '/grpc.' is HTTP/1.x, bytes
\* 0x16 0x03 followed by '/grpc.' are gRPC, 'PRI * HTTP/2.0' is HTTP/2,
\* 0x16 0x03 0x01 and three more bytes are TLS, 'hello world' is Unknown.
C17_SnifferFirstMatch ==
  /\ out.done =>
       LET rules == SniffRules(chunk)
           first == CHOOSE i \in 1..Len(rules) :
                      rules[i].match /\ \A j \in 1..(i - 1) : ~rules[j].match
       IN  out.protocol = rules[first].label
  /\ detectProtocol(StrGET \o StrGrpc) = "HTTP/1.x"
  /\ detectProtocol(<<22, 3>> \o StrGrpc) = "gRPC"
  /\ detectProtocol(StrPRI \o <<1, 2, 3, 4>>) = "HTTP/2"
  /\ detectProtocol(<<22, 3, 1>> \o <<0, 0, 0>>) = "TLS"
  /\ detectProtocol(StrHello) = "Unknown"

\* C17 witness: a chunk that starts with 0x16 0x03, is longer than 5 bytes
\* and contains '/grpc.' was labelled.
C17_Witness ==
  /\ out.done
  /\ Len(chunk) > 5
  /\ SubSeq(chunk, 1, 2) = <<22, 3>>
  /\ Contains(chunk, StrGrpc)
  /\ out.protocol = "gRPC"

\* Byte b is printable ASCII.
Printable(b) == b \in 32..126

\* The positions at which a maximal run of printable bytes of length at
\* least 5 starts, and the position at which the run starting at s ends.
RunEnd(data, s) ==
  CHOOSE e \in s..Len(data) :
    /\ \A i \in s..e : Printable(data[i])
    /\ e = Len(data) \/ ~Printable(data[e + 1])
LongRunStarts(data) ==
  {s \in 1..Len(data) :
     /\ Printable(data[s])
     /\ s = 1 \/ ~Printable(data[s - 1])
     /\ RunEnd(data, s) - s + 1 >= 5}

\* The k-th smallest element of a set of numbers.
Nth(S, k) == CHOOSE s \in S : Cardinality({x \in S : x < s}) = k - 1

\* C18: the strings extracted from a chunk are, from left to right, its
\* maximal runs of bytes 0x20..0x7E of length at least 5 (a run that ends
\* the chunk included), cut to the first 10; no shorter run and no other
\* byte is in the result.
C18_AsciiRuns ==
  out.done =>
    LET S == LongRunStarts(chunk)
        n == Min(Cardinality(S), 10)
    IN  /\ Len(out.asciiStrings) = n
        /\ \A k \in 1..n :
             /\ out.asciiStrings[k] =
                  SubSeq(chunk, Nth(S, k), RunEnd(chunk, Nth(S, k)))
             /\ Len(out.asciiStrings[k]) >= 5
             /\ \A i \in 1..Len(out.asciiStrings[k]) :
                  Printable(out.asciiStrings[k][i])

\* C18 witness: a chunk of more than 10 long runs, the last of which ends
\* the chunk, gave 10 strings.
C18_Witness ==
  /\ out.done
  /\ Cardinality(LongRunStarts(chunk)) > 10
  /\ Printable(chunk[Len(chunk)])
  /\ Len(out.asciiStrings) = 10

(***************************************************************************)
(* Properties of the connection handler and of shutdown (checked under     *)
(* Spec and SpecReg).                                                      *)
(***************************************************************************)
\* The dial of connection k failed: the handler is in its deferred calls or
\* has returned, and never had a server connection to close.
DialFailed(k) ==
  conn[k].hpc \in {"d_dec", "d_cli", "done"} /\ ~conn[k].srvClosed

\* Connection k is counted in the active-connection counter of its
\* instance: the increment of run was done, the handler's decrement not.
Counted(k) ==
  /\ conn[k].inst # 0
  /\ \/ conn[k].hpc \in {"dial", "relay", "d_dec"}
     \/ conn[k].hpc = "none" /\ inst[conn[k].inst].runpc \in {"stat", "stat_l"}
                             /\ inst[conn[k].inst].acc = k

\* C15: after a failed dial the handler closes the client connection,
\* starts no relay and captures nothing for the connection; the
\* active-connection counter counts exactly the connections in progress, so
\* it is back at its value before the accept; and the handler's steps leave
\* the registry, the instance's stop signal, listener, accept loop, buffer
\* and byte count alone: the accept loop ends only on the stop signal.
C15_DialFailure ==
  /\ [](/\ \A k \in ConnIds :
            DialFailed(k) =>
              /\ \A d \in Dirs : conn[k].rpc[d] = "none" /\ conn[k].rn[d] = 0
              /\ conn[k].hpc = "done" => conn[k].cliClosed
        /\ \A i \in Created :
             /\ inst[i].connections =
                  Cardinality({k \in ConnIds : conn[k].inst = i /\ Counted(k)})
             /\ inst[i].runpc = "ret" => inst[i].Done)
  /\ [][\A k \in ConnIds :
          (DialFailed(k)' /\ conn'[k].hpc # conn[k].hpc) =>
            /\ proxies' = proxies
            /\ \A i \in Created :
                 /\ inst'[i].Done = inst[i].Done
                 /\ inst'[i].Listener = inst[i].Listener
                 /\ inst'[i].runpc = inst[i].runpc
                 /\ inst'[i].Buffer = inst[i].Buffer
                 /\ inst'[i].BytesCaptured = inst[i].BytesCaptured]_vars

\* C15 witness: the handler of a connection whose dial failed has returned;
\* its instance is registered and not stopped, its listener is open and its
\* accept loop is back in Accept.
C15_Witness ==
  \E k \in ConnIds :
    /\ DialFailed(k)
    /\ conn[k].hpc = "done"
    /\ proxies[inst[conn[k].inst].ListenPort] = conn[k].inst
    /\ ~inst[conn[k].inst].Done
    /\ inst[conn[k].inst].Listener = "open"
    /\ inst[conn[k].inst].runpc = "accept"
    /\ inst[conn[k].inst].connections = 0
    /\ inst[conn[k].inst].Connections = 1

\* C16: when StopAll returns, every instance that was registered has its
\* Done channel closed and its listener closed, and the registry is empty:
\* GetAllProxies returns nothing and GetProxy finds no port.
C16_StopAllStopsAll ==
  [][\A c \in Callers :
       (call[c].op = "StopAll" /\ InMethod(c) /\ call'[c].pc = "idle") =>
         /\ \A p \in Ports :
              proxies[p] # 0 =>
                /\ inst'[proxies[p]].Done
                /\ inst'[proxies[p]].Listener = "closed"
                /\ osPort'[p] = "free"
         /\ GetAllProxies' = {}
         /\ \A p \in Ports : ~GetProxy(p)'.exists]_vars

\* C16 witness: StopAll returned after stopping two registered instances.
C16_Witness ==
  \E c \in Callers :
    /\ call[c].op = "StopAll" /\ call[c].pc = "idle" /\ call[c].ret = "ok"
    /\ nInst = 2
    /\ \A i \in Created :
         inst[i].Done /\ inst[i].Listener = "closed" /\ inst[i].stopRet = -1
    /\ GetAllProxies = {}

\* C19: the connDone channel of a connection is closed at most once: no
\* relay reaches its close(done) with the channel already closed, and the
\* process never dies of a double close.
C19_ConnDoneClosedOnce ==
  /\ \A k \in ConnIds, d \in Dirs :
       conn[k].rpc[d] = "tclose" => ~conn[k].connDone
  /\ ~panicked

\* C20: the Done channel of an instance is closed at most once, whatever
\* the interleaving of StopProxy and StopAll calls: a caller about to close
\* it finds it open, the process never dies of a double close, an instance
\* whose Done is closed is out of the registry once its stopper has
\* returned, and a StopProxy that finds no entry returns NotFound and
\* changes no instance.
C20_DoneClosedOnce ==
  /\ [](/\ ~panicked
        /\ \A c \in Callers :
             call[c].pc \in {"sp_done", "sa_done"} => ~inst[call[c].proxy].Done
        /\ \A i \in Created :
             (inst[i].Done /\ proxies[inst[i].ListenPort] = i) =>
               \E c \in Callers : InMethod(c) /\ call[c].op \in {"Stop", "StopAll"})
  /\ [][\A c \in Callers :
          (call[c].pc = "sp_lookup" /\ proxies[call[c].port] = 0
           /\ call'[c] # call[c]) =>
            call'[c].ret = "NotFound" /\ inst' = inst]_vars

\* C20 witness: of two StopProxy calls for one port the first stopped the
\* instance and the second, by another caller, found no entry.
C20_Witness ==
  \E c1, c2 \in Callers, i \in Created :
    /\ c1 # c2
    /\ call[c1].op = "Stop" /\ call[c1].pc = "idle" /\ call[c1].ret = "ok"
    /\ call[c2].op = "Stop" /\ call[c2].pc = "idle"
    /\ call[c2].ret = "NotFound"
    /\ call[c1].port = call[c2].port
    /\ inst[i].ListenPort = call[c1].port
    /\ inst[i].Done /\ inst[i].stopRet # -1
    /\ proxies[call[c1].port] = 0

(***************************************************************************)
(* Properties of the lock domains pm.mu, Stats.mu and Buffer.mu (checked   *)
(* under FairSpecLock).                                                    *)
(***************************************************************************)
\* The tasks that take locks: callers, accept loops and relays.
RelayTasks == {<<"relay", k, d>> : k \in ConnIds, d \in Dirs}
Tasks ==
  {<<"caller", c>> : c \in Callers} \cup {<<"run", i>> : i \in InstIds}
    \cup RelayTasks

\* The tasks that hold instance i's Stats.mu write-locked, and the tasks
\* that hold its Buffer.mu.
StatsWriters(i) ==
  {<<"run", j>> : j \in {j \in InstIds : j = i /\ inst[j].runpc = "stat_l"}}
    \cup {t \in RelayTasks : /\ conn[t[2]].inst = i
                              /\ conn[t[2]].rpc[t[3]] = "stats_l"}
BufHolders(i) ==
  {<<"caller", c>> : c \in BufCallers(i)}
    \cup {t \in RelayTasks : /\ conn[t[2]].inst = i
                              /\ conn[t[2]].rpc[t[3]] = "add_l"}

\* The positions at which a caller waits for a lock.
WaitPmPcs == {"ls_rlock", "go_rlock"}
WaitStatsPcs == {"sp_stats", "ls_stats", "go_stats"}
WaitBufPcs == {"ls_buf", "go_all", "go_gs", "go_clr"}

\* The tasks whose holding of a lock keeps task t from the lock it is
\* waiting for ({} if t waits for none or can take it).
BlockedBy(t) ==
  IF t[1] = "caller" THEN
    LET c == t[2] IN
    IF call[c].pc \in WaitPmPcs
      THEN {<<"caller", x>> : x \in {x \in Callers : pmMu = x}}
    ELSE IF call[c].pc \in WaitStatsPcs THEN StatsWriters(call[c].proxy)
    ELSE IF call[c].pc \in WaitBufPcs THEN BufHolders(call[c].proxy)
    ELSE {}
  ELSE IF t[1] = "run" THEN
    IF inst[t[2]].runpc = "stat"
      THEN StatsWriters(t[2])
             \cup {<<"caller", c>> : c \in StatsReaders(t[2])}
      ELSE {}
  ELSE
    LET i == conn[t[2]].inst IN
    IF conn[t[2]].rpc[t[3]] = "stats"
      THEN StatsWriters(i) \cup {<<"caller", c>> : c \in StatsReaders(i)}
    ELSE IF conn[t[2]].rpc[t[3]] = "add" THEN BufHolders(i)
    ELSE {}

\* Some caller method or handler step of caller c.
CallerStep(c) == MethodStep(c) \/ ListStep(c) \/ GetOutputStep(c)

\* Caller c is inside list_proxies or get_proxy_output.
InReader(c) == call[c].op \in {"List", "GetOutput"} /\ InMethod(c)

\* C12: no deadlock across pm.mu, Stats.mu and Buffer.mu: no set of tasks
\* waits in a cycle, each for a lock held by another of the set (or by
\* itself); a task that is not waiting for a lock can take its next step,
\* so every lock that is held is released; and every list_proxies and
\* get_proxy_output call that was started returns (unless the process
\* dies).
C12_NoLockCycle ==
  /\ [](~panicked =>
         /\ \A S \in (SUBSET {t \in Tasks : BlockedBy(t) # {}}) \ {{}} :
              \E t \in S : BlockedBy(t) \cap S = {}
         /\ \A c \in Callers :
              (InMethod(c) /\ call[c].pc \notin
                 (WaitPmPcs \cup WaitStatsPcs \cup WaitBufPcs)) =>
                ENABLED CallerStep(c)
         /\ \A i \in InstIds : inst[i].runpc = "stat_l" => ENABLED RunStep(i)
         /\ \A k \in ConnIds, d \in Dirs :
              conn[k].rpc[d] \in {"stats_l", "add_l"} =>
                ENABLED RelayStep(k, d))
  /\ InReader(ReaderCaller) ~> (call[ReaderCaller].pc = "idle" \/ panicked)

\* C12 witness: a chain of lock waits: get_proxy_output waits for pm.mu,
\* which StopProxy holds while it waits for Stats.mu, which a relay holds in
\* captureData.
C12_Witness ==
  \E c1, c2 \in Callers, k \in ConnIds, d \in Dirs :
    /\ call[c1].pc = "go_rlock"
    /\ pmMu = c2
    /\ call[c2].pc = "sp_stats"
    /\ conn[k].inst = call[c2].proxy
    /\ conn[k].rpc[d] = "stats_l"

(***************************************************************************)
(* The accept loop and the stop signal (under FairSpecReg).                *)
(***************************************************************************)
\* Instance i is stopped: Done is closed and the listener is closed.
StopSignalled(i) == inst[i].Done /\ inst[i].Listener = "closed"

\* The accept loop of instance i has returned.
RunExited(i) == inst[i].runpc = "ret"

\* C21: once Done is closed and the listener closed, the accept loop
\* returns, wherever it was (or the process has died of a panic); and the
\* loop returns only from its select with Done closed, so no timeout or
\* error of Accept ends it.
C21_AcceptLoopExits ==
  /\ \A i \in InstIds : StopSignalled(i) ~> (RunExited(i) \/ panicked)
  /\ [][\A i \in InstIds :
          (~RunExited(i) /\ RunExited(i)') =>
            (inst[i].runpc = "sel" /\ inst[i].Done)]_vars

\* An accept loop has returned after its instance was stopped, and the
\* process is alive.
C21_Witness ==
  \E i \in InstIds : StopSignalled(i) /\ RunExited(i) /\ ~panicked

(***************************************************************************)
(* The two relays of a connection pair (under FairSpec).                   *)
(***************************************************************************)
\* The direction opposite to d.
Opposite(d) == IF d = "Client->Server" THEN "Server->Client" ELSE "Client->Server"

\* The relay of direction d of connection k is terminating after EOF, a
\* read error or a write error: it is about to signal connDone and return.
Terminating(k, d) == conn[k].rpc[d] \in {"tsel", "tclose"}

\* C22: when a relay terminates after EOF, a read error or a write error,
\* the relay of the opposite direction eventually returns too, as long as
\* the instance is running (the stop of the instance is the matter of C8;
\* a panic ends every task with the process); a relay returns only from its select with
\* a stop signal set or from its termination path, and connDone is closed
\* only on a termination path, so a read timeout does neither.
C22_OppositeRelayEnds ==
  /\ \A k \in ConnIds, d \in Dirs :
       Terminating(k, d) ~>
         (conn[k].rpc[Opposite(d)] = "ret" \/ Stopped(k) \/ panicked)
  /\ [][\A k \in ConnIds :
          /\ (conn'[k].connDone /\ ~conn[k].connDone) =>
               \E d \in Dirs : conn[k].rpc[d] = "tclose"
          /\ \A d \in Dirs :
               (conn'[k].rpc[d] = "ret" /\ conn[k].rpc[d] # "ret") =>
                 \/ Terminating(k, d)
                 \/ /\ conn[k].rpc[d] = "sel"
                    /\ inst[conn[k].inst].Done \/ conn[k].connDone]_vars

(***************************************************************************)
(* The handler and its two relays (under Spec).                            *)
(***************************************************************************)
\* The relay of direction d of connection k was started and has not
\* returned.
RelayRunning(k, d) == conn[k].rpc[d] \notin {"none", "ret"}

\* C23: the handler of a connection whose dial succeeded runs its deferred
\* calls only after both relays have returned: while a relay of the
\* connection is running, the upstream and client connections are not
\* closed by the handler and the active-connection counter is not
\* decremented for it.
C23_HandlerWaitsForBothRelays ==
  \A k \in ConnIds, d \in Dirs :
    (RelayRunning(k, d) /\ ~panicked) =>
      /\ conn[k].hpc = "relay"
      /\ ~conn[k].srvClosed
      /\ ~conn[k].cliClosed

(***************************************************************************)
(* Capture and forwarding (checked under Spec).                            *)
(***************************************************************************)
\* The relay of direction d of connection k is in dst.Write.
InWrite(k, d) == conn[k].rpc[d] \in {"write", "blocked"}

\* The newest packet of buffer b (NoPkt if it is empty).
Newest(b) == IF b.count = 0 THEN NoPkt ELSE RbGetAll(b)[b.count]

\* C24: a relay reaches dst.Write only from Buffer.Add, which has added
\* exactly one packet with the relay's direction and the chunk's length;
\* Buffer.Add is reached only after BytesCaptured grew by the chunk's
\* length; so the bytes written on a direction never exceed the bytes
\* counted for it, and in Write the chunk in flight is already counted.  A
\* Write ends by forwarding the chunk or, on an error, on the termination
\* path a read error takes.
C24_CaptureBeforeForward ==
  /\ [](\A k \in ConnIds, d \in Dirs :
         /\ conn[k].fwd[d] <= conn[k].cap[d]
         /\ InWrite(k, d) => conn[k].fwd[d] + conn[k].rn[d] <= conn[k].cap[d])
  /\ [][\A k \in ConnIds, d \in Dirs :
          LET i == conn[k].inst IN
          /\ (conn'[k].rpc[d] = "write" /\ conn[k].rpc[d] # "write") =>
               /\ conn[k].rpc[d] = "add_l"
               /\ inst'[i].nCap = inst[i].nCap + 1
               /\ Newest(inst'[i].Buffer).dir = d
               /\ Newest(inst'[i].Buffer).bytes = conn[k].rn[d]
               /\ Newest(inst'[i].Buffer).conn = k
               /\ conn[k].rn[d] > 0
          /\ (conn'[k].rpc[d] = "add" /\ conn[k].rpc[d] # "add") =>
               /\ conn[k].rpc[d] = "stats_l"
               /\ inst'[i].BytesCaptured =
                    inst[i].BytesCaptured + conn[k].rn[d]
          /\ (InWrite(k, d) /\ ~InWrite(k, d)') =>
               \/ /\ conn'[k].rpc[d] = "sel"
                  /\ conn'[k].fwd[d] = conn[k].fwd[d] + conn[k].rn[d]
               \/ /\ conn'[k].rpc[d] = "tsel"
                  /\ conn'[k].fwd[d] = conn[k].fwd[d]]_vars

\* A chunk was captured and then forwarded, and another relay's Write of a
\* captured chunk has failed.
C24_Witness ==
  \E k \in ConnIds, d \in Dirs :
    /\ conn[k].fwd[d] > 0
    /\ conn[k].fwd[d] = conn[k].cap[d]
    /\ conn[k].rpc[Opposite(d)] \in {"tsel", "tclose", "ret"}
    /\ conn[k].cap[Opposite(d)] > conn[k].fwd[Opposite(d)]

(***************************************************************************)
(* The order of the captured packets (checked under SpecXfer).             *)
(***************************************************************************)
\* Packets p and q were built by the same relay.
SameRelay(p, q) == p.conn = q.conn /\ p.dir = q.dir

\* C25: in every snapshot GetAll can return, the retained packets of one
\* direction of one connection stand in the order of their reads, whatever
\* the opposite direction and the other connections add in between.
C25_ReadOrderKept ==
  \A i \in InstIds :
    \A snapshot \in {RbGetAll(inst[i].Buffer)} :
      \A a, b \in 1..Len(snapshot) :
        (SameRelay(snapshot[a], snapshot[b])
           /\ snapshot[a].seq < snapshot[b].seq) => a < b

\* A snapshot holds the packets of two successive reads of one relay with a
\* packet of the opposite direction or of another connection between them.
C25_Witness ==
  \E i \in InstIds :
    \E snapshot \in {RbGetAll(inst[i].Buffer)} :
      /\ Len(snapshot) = 3
      /\ SameRelay(snapshot[1], snapshot[3])
      /\ snapshot[1].seq = 1
      /\ snapshot[3].seq = 2
      /\ ~SameRelay(snapshot[1], snapshot[2])

(***************************************************************************)
(* Add evicts minimally (checked under SpecBuf).                           *)
(***************************************************************************)
\* C26: every Add stores its packet as the newest one; it evicts nothing
\* when the usage plus the incoming size is within the budget; otherwise it
\* evicts the oldest packets only, and stops as soon as the incoming packet
\* fits or the buffer is empty: with the last evicted packet kept the
\* budget would have been exceeded.
C26_AddEvictsMinimally ==
  [][\A t \in BufThreads :
       BufReturns(t, "Add") =>
         \A before \in {RbGetAll(rb)}, after \in {RbGetAll(rb')} :
           LET size    == Min(barg[t].raw, rb.maxSize)
               evicted == Len(before) + 1 - Len(after)
           IN  /\ Len(after) >= 1
               /\ after[Len(after)].id = barg[t].id
               /\ after[Len(after)].raw = size
               /\ evicted \in 0..Len(before)
               /\ \A j \in 1..(Len(after) - 1) : after[j] = before[evicted + j]
               /\ rb.currentSize + size <= rb.maxSize => evicted = 0
               /\ evicted > 0 =>
                    /\ rb'.currentSize + before[evicted].raw > rb.maxSize
                    /\ rb'.currentSize <= rb.maxSize \/ Len(after) = 1]_vars

\* An Add has evicted some packets and kept others: the buffer is full to
\* its budget with two packets or more, and older packets are gone.
C26_Witness ==
  /\ rb.count >= 2
  /\ Len(hist) > rb.count
  /\ rb.currentSize = rb.maxSize
  /\ rbMu = "free"

(***************************************************************************)
(* Buffer usage and the byte statistic (checked under SpecLock).           *)
(***************************************************************************)
\* C27: the byte usage of an instance's buffer never exceeds the
\* instance's BytesCaptured, whatever the relays, Clear and the reading
\* handlers do.
C27_UsageWithinCaptured ==
  \A i \in InstIds : inst[i].Buffer.currentSize <= inst[i].BytesCaptured

\* A relay has counted and added a chunk and get_proxy_output has cleared
\* the buffer since.
C27_Witness ==
  \E i \in InstIds :
    /\ inst[i].nCap > 0
    /\ inst[i].BytesCaptured > 0
    /\ inst[i].Buffer.count = 0
    /\ \E c \in Callers : call[c].op = "none" /\ call[c].ret = "ok"

(***************************************************************************)
(* get_proxy_output with clear_buffer (checked under SpecLock).            *)
(***************************************************************************)
\* The packets of sequence s, as a set.
PacketsOf(s) == {s[j] : j \in 1..Len(s)}

\* C28: the Clear of get_proxy_output removes only packets that are in the
\* captures the same call returns, so that no packet disappears unseen;
\* and the buffer_bytes the call reports is the total raw size of those
\* captures.
C28_ClearRemovesOnlyReturned ==
  /\ [](\A c \in Callers :
         call[c].pc \in {"go_stats", "go_stats_l", "go_clr", "go_clr_l"} =>
           call[c].totalBytes = SumRaw(call[c].captures))
  /\ [][\A c \in Callers :
          (call[c].pc = "go_clr_l" /\ call'[c].pc # "go_clr_l") =>
            PacketsOf(RbGetAll(inst[call[c].proxy].Buffer))
              \subseteq PacketsOf(call[c].captures)]_vars

(***************************************************************************)
(* Instances across a Stop/Start cycle (checked under Spec).               *)
(***************************************************************************)
\* The parts of instance i that tasks share: stop signal, buffer, byte and
\* connection statistics and the active-connection counter.
SharedOf(x) ==
  <<x.Done, x.Buffer, x.BytesCaptured, x.Connections, x.connections>>
Shared(i) == SharedOf(inst[i])

\* The step is one of the accept loop of instance i, of the handler of
\* connection k, or of the relay of direction d of connection k.
RunActs(i) == inst'[i].runpc # inst[i].runpc
HandlerActs(k) == conn'[k].hpc # conn[k].hpc
RelayActs(k, d) == conn'[k].rpc[d] # conn[k].rpc[d]

\* C29: StartProxy creates an instance with an open Done, an empty buffer
\* and zero statistics and counter, and changes no other instance; the
\* accept loop, the handlers and the relays change the shared parts of
\* their own instance only, and none of them closes a Done; so the tasks
\* unwinding from a stopped instance leave its successor on the port alone.
C29_InstancesIsolated ==
  [][/\ nInst' # nInst =>
          /\ nInst' = nInst + 1
          /\ SharedOf(inst'[nInst']) =
               <<FALSE, RbClear(inst'[nInst'].Buffer), 0, 0, 0>>
          /\ inst'[nInst'].Buffer.count = 0
          /\ \A j \in InstIds \ {nInst'} : Shared(j)' = Shared(j)
     /\ \A i \in InstIds :
          RunActs(i) =>
            /\ \A j \in InstIds \ {i} : Shared(j)' = Shared(j)
            /\ inst'[i].Done = inst[i].Done
     /\ \A k \in ConnIds :
          (HandlerActs(k) \/ \E d \in Dirs : RelayActs(k, d)) =>
            /\ \A j \in InstIds \ {conn[k].inst} : Shared(j)' = Shared(j)
            /\ \A j \in InstIds : inst'[j].Done = inst[j].Done]_vars

\* The port has a new registered instance, untouched, while a relay of the
\* stopped one is unwinding and has captured after StopProxy returned.
C29_Witness ==
  \E i, j \in Created :
    /\ i # j
    /\ inst[i].ListenPort = inst[j].ListenPort
    /\ proxies[inst[j].ListenPort] = j
    /\ inst[i].stopRet # -1
    /\ inst[i].BytesCaptured > inst[i].stopRet
    /\ inst[i].nCap > 0
    /\ Unwinding(i)
    /\ Shared(j) = <<FALSE, RbClear(inst[j].Buffer), 0, 0, 0>>

====
